---- MODULE Spec2Model ----
(***************************************************************************)
(* Transcript chunking and multi-pass summarization of Youtube_Summerator. *)
(*                                                                         *)
(* Spec     : chunk_transcript (src/ytsummarator.py), one loop iteration   *)
(*            per step, over every text of at most MaxWords words.         *)
(*                                                                         *)
(* SpecJob  : get_summary / generate_summary (src/ytsummarator.py), one    *)
(*            step per request to the text-generation service, over every  *)
(*            list of at most MaxChunks chunks.  During one job the        *)
(*            service fails in one way (rate limit or refused key).        *)
(*                                                                         *)
(* SpecRetry : retry_with_backoff (src/ytsummarator/utils/error.py), one   *)
(*            pass of its loop per step.                                   *)
(*                                                                         *)
(* SpecWorker: SummaryWorker (src/youtube_downloader_gui.py) running       *)
(*            generate_summary for each url, with cancel() called from     *)
(*            the GUI thread at any moment.                                *)
(*                                                                         *)
(* SpecCache : Cache (src/ytsummarator/services/cache.py), one call per    *)
(*            step, with days passing between the calls.                   *)
(*                                                                         *)
(* SpecPipeline: get_summary (src/ytsummarator.py) around its caches, run  *)
(*            up to MaxRuns times for one video.                           *)
(*                                                                         *)
(* SpecCounted: chunk_transcript with the parameters of                    *)
(*            get_chunk_parameters, on the token counts of the sentences.  *)
(*                                                                         *)
(* SpecCore : YouTubeSummarizer.summarize_video                            *)
(*            (src/ytsummarator/core/summarizer.py), one pass of a retry   *)
(*            loop per step.                                               *)
(*                                                                         *)
(* SpecShared: two Cache instances over one cache directory.               *)
(*                                                                         *)
(* A text is a sequence of words separated by single spaces.  A word is    *)
(* a run of letters ("a") or a number ("1"), optionally followed by the    *)
(* sentence terminator ".".                                                *)
(***************************************************************************)
EXTENDS Integers, Sequences, FiniteSets, TLC

----------------------------------------------------------------------------
(* Bounds of the model *)

MaxWords == 5
MaxTokens == 4
MaxOverlap == 4
MaxChunks == 3
MaxRetries == 4

----------------------------------------------------------------------------
(* Strings *)

Word == {"a", "a.", "1", "1."}

\* the word ends with one of the characters [.!?]
EndsSentence(w) == w \in {"a.", "1."}

\* the word starts with a digit
IsNumber(w) == w \in {"1", "1."}

Texts == UNION {[1..n -> Word] : n \in 0..MaxWords}

RECURSIVE Flatten(_)
\* ' '.join(items) for items that are themselves space-separated words
Flatten(items) ==
    IF items = <<>> THEN <<>> ELSE Head(items) \o Flatten(Tail(items))

RECURSIVE SumSeq(_)
SumSeq(ns) == IF ns = <<>> THEN 0 ELSE Head(ns) + SumSeq(Tail(ns))

----------------------------------------------------------------------------
(* tiktoken: len(encoding.encode(string)).                                 *)
(* The cl100k_base pre-tokenizer cuts a string into pieces that are then   *)
(* encoded separately: a run of letters takes one preceding space with it  *)
(* (" a" is one piece), a run of punctuation likewise, but a number does   *)
(* not: in "a 1" the space before the number is a piece of its own.  Each  *)
(* piece of this alphabet is one token.                                    *)

WordTokens(w, spaced) ==
    1 + (IF EndsSentence(w) THEN 1 ELSE 0)
      + (IF IsNumber(w) /\ spaced THEN 1 ELSE 0)

RECURSIVE TokensFrom(_, _)
TokensFrom(str, i) ==
    IF i > Len(str) THEN 0
    ELSE WordTokens(str[i], i > 1) + TokensFrom(str, i + 1)

\* len(encoding.encode(str))
Tokens(str) == TokensFrom(str, 1)

----------------------------------------------------------------------------
(* re.split(r'(?<=[.!?])\s+', text): cut at the whitespace that follows a  *)
(* terminator; the terminator stays with its sentence.  The empty text     *)
(* gives the one-element list [''].                                        *)

RECURSIVE SplitFrom(_, _, _)
SplitFrom(text, i, cur) ==
    IF i > Len(text) THEN <<cur>>
    ELSE IF EndsSentence(text[i]) /\ i < Len(text)
         THEN <<Append(cur, text[i])>> \o SplitFrom(text, i + 1, <<>>)
         ELSE SplitFrom(text, i + 1, Append(cur, text[i]))

RECURSIVE SplitEatingFrom(_, _, _)
SplitEatingFrom(text, i, cur) ==
    IF i > Len(text) THEN <<cur>>
    ELSE IF EndsSentence(text[i]) /\ i < Len(text)
         THEN <<Append(cur, IF IsNumber(text[i]) THEN "1" ELSE "a")>>
              \o SplitEatingFrom(text, i + 1, <<>>)
         ELSE SplitEatingFrom(text, i + 1, Append(cur, text[i]))

\* the split pattern without its lookbehind, r'[.!?]\s+': the terminator is
\* part of the separator and is lost
SentencesEatingTerminator(text) == SplitEatingFrom(text, 1, <<>>)

Sentences(text) == SplitFrom(text, 1, <<>>)

----------------------------------------------------------------------------
(* Values handled by the summarization job *)

\* Python None
NoneValue == [kind |-> "None", chunk |-> 0, of |-> <<>>]

\* the empty string ""
EmptyString == [kind |-> "empty", chunk |-> 0, of |-> <<>>]

\* the text the service generates for chunk number c (from 0)
ChunkSummary(c) == [kind |-> "chunk", chunk |-> c, of |-> <<>>]

\* the text the service generates for the combined points of the given
\* chunk summaries
FinalSummary(summaries) ==
    [kind |-> "final", chunk |-> 0,
     of |-> [j \in 1..Len(summaries) |-> summaries[j].chunk]]

\* Python truthiness of a str-or-None
Truthy(v) == v.kind \in {"chunk", "final"}

\* ProgressTracker.update, line 37: self.current_chunk = chunk_index + 1
ProgressCurrent(chunk_index) == chunk_index + 1

\* the `break` of line 570 placed outside `if summary:`
LeavesRetryLoopAlways(new_summary, pass, passes) == TRUE

\* lines 557-570: the retry loop of a chunk ends at the `break` after a
\* summary, or with its last pass
LeavesRetryLoop(new_summary, pass, passes) ==
    Truthy(new_summary) \/ pass + 1 = passes

\* what client.chat.completions.create does: returns a message with content,
\* or raises
Outcomes == {"content", "RateLimited", "AuthError"}

\* the ways a request fails: the limit of the account is reached, or the
\* API key is refused
Failures == Outcomes \ {"content"}

\* token counts below, within and above the range where token_count / 500
\* lies between 5 and 20
ChunkSizes == <<1000, 5000, 12000>>

\* the token counts of a job's chunks: the sizes alternate along the
\* transcript, starting from the first or from the second of ChunkSizes
JobChunkLists ==
    {[k \in 1..n |-> ChunkSizes[((k + first) % Len(ChunkSizes)) + 1]] :
        first \in {0, 1}, n \in 1..MaxChunks}

Event(op, c, attempt, outcome, tokens, arg) ==
    [op |-> op, chunk |-> c, attempt |-> attempt, outcome |-> outcome,
     tokens |-> tokens, arg |-> arg]

----------------------------------------------------------------------------
(* Cache, src/ytsummarator/services/cache.py (the same class is in          *)
(* src/ytsummarator.py, lines 114-205).  A string is a sequence of          *)
(* characters; a video id, a depth and a model name are sequences of the    *)
(* parts that "_" separates, so "a_b" is <<"a", "b">>.                      *)

\* a mapping without entries: a directory without files
EmptyMap == [x \in {} |-> 0]

Put(f, k, v) == [x \in DOMAIN f \cup {k} |-> IF x = k THEN v ELSE f[x]]

Remove(f, k) == [x \in DOMAIN f \ {k} |-> f[x]]

\* line 35: os.path.join(self.transcript_dir, f"{video_id}.json")
TranscriptPath(video_id) == [dir |-> "transcripts", name |-> video_id]

\* line 39: os.path.join(self.summary_dir, f"{video_id}_{depth}_{model}.md")
SummaryPath(video_id, depth, model) ==
    [dir |-> "summaries", name |-> video_id \o depth \o model]

\* line 67: f"transcript_{video_id}"
TranscriptKey(video_id) == <<"transcript">> \o video_id

\* line 77: f"summary_{video_id}_{depth}_{model}"
SummaryKey(video_id, depth, model) == <<"summary">> \o video_id \o depth \o model

\* f.write(summary) on a file opened with open(path, 'w'): each "\n" is
\* written as os.linesep
RECURSIVE WriteText(_, _)
WriteText(str, sep) ==
    IF str = <<>> THEN <<>>
    ELSE (IF Head(str) = "\n" THEN sep ELSE <<Head(str)>>) \o WriteText(Tail(str), sep)

\* f.read() on a file opened with open(path, 'r'): "\r\n" and "\r" are read
\* as "\n"
RECURSIVE ReadText(_)
ReadText(bytes) ==
    IF bytes = <<>> THEN <<>>
    ELSE IF Head(bytes) = "\r"
         THEN IF Len(bytes) > 1 /\ bytes[2] = "\n"
              THEN <<"\n">> \o ReadText(Tail(Tail(bytes)))
              ELSE <<"\n">> \o ReadText(Tail(bytes))
         ELSE <<Head(bytes)>> \o ReadText(Tail(bytes))

\* json.dump writes a control character of a string as an escape
JsonEscape(c) ==
    CASE c = "\n" -> <<"\\", "n">>
      [] c = "\r" -> <<"\\", "r">>
      [] OTHER -> <<c>>

JsonUnescape(c) ==
    CASE c = "n" -> "\n"
      [] c = "r" -> "\r"
      [] OTHER -> c

RECURSIVE JsonString(_)
JsonString(str) ==
    IF str = <<>> THEN <<>> ELSE JsonEscape(Head(str)) \o JsonString(Tail(str))

\* line 66: json.dump(transcript, f), a list of segments with their text
RECURSIVE JsonDump(_)
JsonDump(transcript) ==
    IF transcript = <<>> THEN <<>>
    ELSE <<"{">> \o JsonString(Head(transcript).text) \o <<"}">>
         \o JsonDump(Tail(transcript))

\* line 53: json.load(f)
RECURSIVE JsonLoadFrom(_, _, _, _)
JsonLoadFrom(chars, k, segments, cur) ==
    IF k > Len(chars) THEN segments
    ELSE CASE chars[k] = "{" -> JsonLoadFrom(chars, k + 1, segments, <<>>)
           [] chars[k] = "}" ->
                JsonLoadFrom(chars, k + 1, Append(segments, [text |-> cur]), <<>>)
           [] chars[k] = "\\" ->
                JsonLoadFrom(chars, k + 2, segments,
                             Append(cur, JsonUnescape(chars[k + 1])))
           [] OTHER -> JsonLoadFrom(chars, k + 1, segments, Append(cur, chars[k]))

JsonLoad(chars) == JsonLoadFrom(chars, 1, <<>>, <<>>)

\* the metadata dict, in insertion order: self.metadata[key] = {...}
SetItem(dict, key, timestamp) ==
    IF \E k \in 1..Len(dict) : dict[k].key = key
    THEN [k \in 1..Len(dict) |->
             IF dict[k].key = key THEN [key |-> key, timestamp |-> timestamp]
             ELSE dict[k]]
    ELSE Append(dict, [key |-> key, timestamp |-> timestamp])

\* del self.metadata[key]
DelItem(dict, key) == SelectSeq(dict, LAMBDA e : e.key # key)

Keys(dict) == {dict[k].key : k \in 1..Len(dict)}

\* line 89: current_time - data["timestamp"] > max_age, in days
IsExpired(age, max_age_days) == age > max_age_days

\* lines 88-96: the loop of cleanup from item k of list(self.metadata.items())
\* on: os.remove raises FileNotFoundError for a path that is no file, and the
\* unpacking of line 94 raises ValueError unless the key has four parts
RECURSIVE CleanupFrom(_, _, _, _, _)
CleanupFrom(items, k, current_time, max_age_days, st) ==
    IF k > Len(items) THEN st
    ELSE LET key == items[k].key IN
         IF ~IsExpired(current_time - items[k].timestamp, max_age_days)
         THEN CleanupFrom(items, k + 1, current_time, max_age_days, st)
         ELSE IF key[1] = "transcript"
         THEN LET path == TranscriptPath(<<key[2]>>) IN
              IF path \notin DOMAIN st.files
              THEN [st EXCEPT !.raised = "FileNotFoundError"]
              ELSE CleanupFrom(items, k + 1, current_time, max_age_days,
                               [st EXCEPT !.files = Remove(@, path),
                                          !.metadata = DelItem(@, key)])
         ELSE IF Len(key) # 4
         THEN [st EXCEPT !.raised = "ValueError"]
         ELSE LET path == SummaryPath(<<key[2]>>, <<key[3]>>, <<key[4]>>) IN
              IF path \notin DOMAIN st.files
              THEN [st EXCEPT !.raised = "FileNotFoundError"]
              ELSE CleanupFrom(items, k + 1, current_time, max_age_days,
                               [st EXCEPT !.files = Remove(@, path),
                                          !.metadata = DelItem(@, key)])

----------------------------------------------------------------------------
(* retry_with_backoff, src/ytsummarator/utils/error.py.  Delays are in      *)
(* milliseconds.                                                            *)

\* exponential_base ** attempt
RECURSIVE Power(_, _)
Power(b, n) == IF n = 0 THEN 1 ELSE b * Power(b, n - 1)

\* the default of the parameter exponential_base
ExponentialBase == 2

\* the test of line 38 taken one pass later
IsLastAttemptLate(attempt, max_retries) == attempt = max_retries

\* line 38: attempt == max_retries - 1
IsLastAttempt(attempt, max_retries) == attempt = max_retries - 1

\* how one pass of `for attempt in range(max_retries)` ends, lines 34-53:
\* func() returned, RetryError is raised (line 39, or line 53 when the loop
\* has no pass), or the loop sleeps and goes on
PassResult(outcome, attempt, max_retries) ==
    IF attempt >= max_retries THEN "raised"
    ELSE IF outcome = "content" THEN "returned"
    ELSE IF IsLastAttempt(attempt, max_retries) THEN "raised"
    ELSE "again"

\* a caller that swallows the RetryError
PropagatesNever(pass_result) == FALSE

\* summarize_chunk, get_transcript and summarize_video of core/summarizer.py
\* have no try: the RetryError of retry_with_backoff leaves them
Propagates(pass_result) == pass_result = "raised"

Min(a, b) == IF a <= b THEN a ELSE b

\* lines 42-45: min(base_delay * (exponential_base ** attempt), max_delay)
BackoffDelay(base_delay, max_delay, attempt) ==
    Min(base_delay * Power(ExponentialBase, attempt), max_delay)

\* line 49: delay *= 1 + (time.time() % 1) * 0.1, the fraction of the second
\* given in thousandths
Jittered(delay, fraction) == delay + (delay * fraction) \div 10000

\* what time.time() % 1 can be, in thousandths
Fractions == {0, 500, 999}

\* RetryError(f"Failed after {max_retries} attempts: {str(e)}"); the message
\* of line 53 names no error
RetryError(max_retries, message) ==
    [kind |-> "RetryError", attempts |-> max_retries, message |-> message]

\* the value func() returned
FuncResult == [kind |-> "result", attempts |-> 0, message |-> ""]

NoResult == [kind |-> "none", attempts |-> 0, message |-> ""]

----------------------------------------------------------------------------
(* chunk_transcript *)

\* line 271: adding this sentence would exceed the limit, and there is a
\* current chunk to save
ShouldCloseAlways(current_tokens, sentence_token_count, current_chunk, limit) ==
    current_tokens + sentence_token_count > limit

ShouldCloseAtLimit(current_tokens, sentence_token_count, current_chunk, limit) ==
    current_tokens + sentence_token_count >= limit /\ current_chunk # <<>>

ShouldClose(current_tokens, sentence_token_count, current_chunk, limit) ==
    current_tokens + sentence_token_count > limit /\ current_chunk # <<>>

RECURSIVE OverlapTake(_, _, _, _)
\* lines 283-289: walk reversed(current_chunk) from item j, taking items
\* while the running count stays within the budget; the number taken
OverlapTake(current_chunk, j, count, budget) ==
    IF j = 0 THEN 0
    ELSE LET prev_tokens == Tokens(current_chunk[j])
         IN IF count + prev_tokens <= budget
            THEN 1 + OverlapTake(current_chunk, j - 1, count + prev_tokens, budget)
            ELSE 0

\* the items of current_chunk selected as overlap, in their original order
OverlapItems(current_chunk, budget) ==
    LET k == OverlapTake(current_chunk, Len(current_chunk), 0, budget)
    IN SubSeq(current_chunk, Len(current_chunk) - k + 1, Len(current_chunk))

\* overlap_tokens_count, lines 282-287
OverlapCount(current_chunk, budget) ==
    SumSeq([j \in 1..Len(OverlapItems(current_chunk, budget)) |->
               Tokens(OverlapItems(current_chunk, budget)[j])])

\* line 291: overlap_text.strip().split() -- the overlap text cut at every
\* whitespace, one list item per word
SeedChunk(overlap_items) ==
    LET words == Flatten(overlap_items)
    IN [j \in 1..Len(words) |-> <<words[j]>>]

----------------------------------------------------------------------------
(* get_chunk_parameters, lines 230-248, and chunk_transcript on token      *)
(* counts: a sentence is the list of the token counts of its words, and    *)
(* its own count is their sum                                              *)

\* lines 235-237: the configuration defaults (lines 70-72); the ratios 0.4
\* and 0.1 in percent
ReservedTokens == 1000
ChunkSizePercent == 40
ChunkOverlapPercent == 10

\* line 241 alone
MaxChunkTokensReservedOnly(context_window) == context_window - ReservedTokens

\* lines 240-243: min(context_window - reserved_tokens,
\*                    int(context_window * chunk_size_ratio))
MaxChunkTokens(context_window) ==
    LET by_ratio == (context_window * ChunkSizePercent) \div 100
    IN IF context_window - ReservedTokens < by_ratio
       THEN context_window - ReservedTokens
       ELSE by_ratio

\* line 246: int(max_chunk_tokens * chunk_overlap_ratio)
OverlapTokens(max_chunk_tokens) == (max_chunk_tokens * ChunkOverlapPercent) \div 100

\* lines 267-268, 284: the token count of a list item
CountOf(item) == SumSeq(item)

RECURSIVE CountedOverlapTake(_, _, _, _)
\* lines 283-289 on token counts: the number of items taken as overlap
CountedOverlapTake(current_chunk, j, count, budget) ==
    IF j = 0 THEN 0
    ELSE LET prev_tokens == CountOf(current_chunk[j])
         IN IF count + prev_tokens <= budget
            THEN 1 + CountedOverlapTake(current_chunk, j - 1, count + prev_tokens,
                                        budget)
            ELSE 0

CountedOverlapItems(current_chunk, budget) ==
    LET k == CountedOverlapTake(current_chunk, Len(current_chunk), 0, budget)
    IN SubSeq(current_chunk, Len(current_chunk) - k + 1, Len(current_chunk))

\* overlap_tokens_count, lines 282-287
CountedOverlap(current_chunk, budget) ==
    SumSeq([j \in 1..Len(CountedOverlapItems(current_chunk, budget)) |->
               CountOf(CountedOverlapItems(current_chunk, budget)[j])])

VARIABLES
    text,            \* the input string
    max_tokens,      \* chunk budget
    overlap_tokens,  \* overlap budget
    sentences,       \* re.split result
    pos,             \* index of the next sentence of the for loop
    chunks,          \* the result list of {text, token_count}
    current_chunk,   \* list of strings
    current_tokens,  \* running count
    seeds,           \* history: for each closed chunk, the overlap seeded from it
    cpc              \* "start", "loop", "done"

cvars == <<text, max_tokens, overlap_tokens, sentences, pos, chunks,
           current_chunk, current_tokens, seeds, cpc>>

VARIABLES
    job_chunks,              \* token_count of each chunk of the job's transcript
    max_retries,             \* config "max_retries"
    failure,                 \* how a request fails while this job runs
    summary_cache,           \* cache entry of (video id, depth, model)
    jpc,                     \* position in get_summary / generate_summary
    i,                       \* chunk index of the for loop, from 0
    retry,                   \* attempt index of the retry loop, from 0
    intermediate_summaries,  \* list of chunk summaries
    summary,                 \* what generate_summary returned to get_summary
    saved,                   \* the summary written to the output file
    events                   \* history: progress reports, sleeps and requests

jvars == <<job_chunks, max_retries, failure, summary_cache, jpc, i, retry, intermediate_summaries,
           summary, saved, events>>

VARIABLES
    rwb_max_retries, \* retry_with_backoff: parameter max_retries
    base_delay,      \* parameter base_delay, in milliseconds
    max_delay,       \* parameter max_delay, in milliseconds
    jitter,          \* parameter jitter
    attempt,         \* index of the for loop, from 0
    func_calls,      \* history: what each call of func() did
    delays,          \* history: the argument of each time.sleep
    result,          \* what retry_with_backoff returned or raised
    rpc              \* "idle", "loop", "returned", "raised"

rvars == <<rwb_max_retries, base_delay, max_delay, jitter, attempt, func_calls,
           delays, result, rpc>>

VARIABLES
    n_urls,          \* SummaryWorker: len(self.urls)
    url_index,       \* position of `for url in self.urls`, from 0
    is_cancelled,    \* self.is_cancelled
    cancel_mark,     \* history: where the job was when cancel() was called
    wrappers,        \* how many underscore_filename_wrapper are around
                     \* yt_sum.get_next_available_filename
    original_get_filename, \* the local of line 353: the wrappers around the
                     \* function it holds
    run_ok,          \* FALSE once an exception has reached line 399
    finished_emits,  \* history: every finished.emit, with the flag at that time
    wpc              \* "idle", "start", "loop", "summarizing", "check", "emit",
                     \* "done"

wvars == <<n_urls, url_index, is_cancelled, cancel_mark, wrappers,
           original_get_filename, run_ok, finished_emits, wpc>>

VARIABLES
    files,           \* Cache: the files of the cache directories, path -> content
    metadata,        \* self.metadata, in insertion order
    saved_metadata,  \* the content of cache_metadata.json
    now,             \* time.time(), in days
    linesep,         \* os.linesep of the platform
    last_written,    \* history: what was last cached under each key
    last_op,         \* history: the last call, and the cache before a cleanup
    cache_calls      \* number of calls so far

kvars == <<files, metadata, saved_metadata, now, linesep, last_written, last_op,
           cache_calls>>

VARIABLES
    SUMMARY_DEPTH,      \* get_summary: os.getenv('SUMMARY_DEPTH', 'detailed')
    OPENAI_MODEL,       \* os.getenv('OPENAI_MODEL', 'gpt-3.5-turbo-16k')
    cached_transcript,  \* cache.has_transcript(video_id) of the one video
    cached_summaries,   \* the summary entries of the video, (depth, model) -> text
    fetch_attempt,      \* get_transcript_with_retry: index of the for loop
    net_calls,          \* history: the external services this run has called
    at_start,           \* history: what was cached when this run started
    run_log,            \* history: the runs that have ended
    runs,               \* number of runs started
    gpc                 \* "idle", "title", "transcript", "fetch", "summary", "done"

pvars == <<SUMMARY_DEPTH, OPENAI_MODEL, cached_transcript, cached_summaries,
           fetch_attempt, net_calls, at_start, run_log, runs, gpc>>

VARIABLES
    context_window,   \* get_chunk_parameters: the model's context window
    sentence_words,   \* the transcript: per sentence, the token counts of its words
    counted_pos,      \* index of the next sentence of the for loop
    counted_chunk,    \* current_chunk, each item as its words' token counts
    counted_tokens,   \* current_tokens
    token_counts,     \* the token_count of every chunk appended to chunks
    qpc               \* "idle", "loop", "done"

qvars == <<context_window, sentence_words, counted_pos, counted_chunk,
           counted_tokens, token_counts, qpc>>

VARIABLES
    core_max_retries,       \* YouTubeSummarizer: self.config.get("max_retries")
    core_chunks,            \* summarize_video: len(chunks)
    has_cached_transcript,  \* self.cache.has_transcript(video_id)
    core_cached_summary,    \* the summary cache entry of (video id, depth, model)
    chunk_index,            \* i of `for i, chunk in enumerate(chunks)`
    chunk_summaries,        \* chunk_summaries
    core_attempt,           \* retry_with_backoff: attempt
    core_requests,          \* history: per retry_with_backoff call, what func() did
    core_result,            \* what summarize_video returned or raised
    upc                     \* "idle", "start", "fetching", "chunks", "summarizing", "done"

uvars == <<core_max_retries, core_chunks, has_cached_transcript,
           core_cached_summary, chunk_index, chunk_summaries, core_attempt,
           core_requests, core_result, upc>>

VARIABLES
    instance_metadata,  \* per Cache instance: whether it was constructed, and
                        \* its self.metadata
    cached_keys,        \* history: the metadata keys of the entries cached so far
    shared_calls        \* number of cache_transcript / cache_summary calls so far

hvars == <<instance_metadata, cached_keys, shared_calls>>

ovars == <<pvars, qvars, uvars, hvars>>

vars == <<cvars, jvars, rvars, wvars, kvars, ovars>>

ChunkInit ==
    /\ text \in Texts
    /\ max_tokens \in 1..MaxTokens
    /\ overlap_tokens \in 0..MaxOverlap
    /\ sentences = <<>>
    /\ pos = 1
    /\ chunks = <<>>
    /\ current_chunk = <<>>
    /\ current_tokens = 0
    /\ seeds = <<>>
    /\ cpc = "start"

\* no summarization job
JobIdle ==
    /\ job_chunks = <<>>
    /\ max_retries = 1
    /\ failure = "RateLimited"
    /\ summary_cache = NoneValue
    /\ jpc = "idle"
    /\ i = 0
    /\ retry = 0
    /\ intermediate_summaries = <<>>
    /\ summary = NoneValue
    /\ saved = NoneValue
    /\ events = <<>>

\* no retry_with_backoff call
RetryIdle ==
    /\ rwb_max_retries = 1
    /\ base_delay = 1000
    /\ max_delay = 10000
    /\ jitter = FALSE
    /\ attempt = 0
    /\ func_calls = <<>>
    /\ delays = <<>>
    /\ result = NoResult
    /\ rpc = "idle"

\* cancel() was not called
NoMark == [pc |-> "", chunk |-> 0, at |-> 0]

\* no SummaryWorker
WorkerIdle ==
    /\ n_urls = 0
    /\ url_index = 0
    /\ is_cancelled = FALSE
    /\ cancel_mark = NoMark
    /\ wrappers = 0
    /\ original_get_filename = 0
    /\ run_ok = TRUE
    /\ finished_emits = <<>>
    /\ wpc = "idle"

\* a call that is no cleanup
NoCleanup ==
    [op |-> "none", max_age_days |-> 0, at |-> 0,
     before |-> [files |-> EmptyMap, metadata |-> <<>>], raised |-> "none"]

\* no Cache in use
CacheIdle ==
    /\ files = EmptyMap
    /\ metadata = <<>>
    /\ saved_metadata = <<>>
    /\ now = 0
    /\ linesep = <<"\n">>
    /\ last_written = EmptyMap
    /\ last_op = NoCleanup
    /\ cache_calls = 0

\* no run of get_summary
NoRun == [transcript |-> FALSE, summaries |-> EmptyMap]

PipelineIdle ==
    /\ SUMMARY_DEPTH = "detailed"
    /\ OPENAI_MODEL = "gpt-3.5-turbo-16k"
    /\ cached_transcript = FALSE
    /\ cached_summaries = EmptyMap
    /\ fetch_attempt = 0
    /\ net_calls = <<>>
    /\ at_start = NoRun
    /\ run_log = <<>>
    /\ runs = 0
    /\ gpc = "idle"

\* no chunk_transcript call on token counts
CountedIdle ==
    /\ context_window = 16000
    /\ sentence_words = <<>>
    /\ counted_pos = 1
    /\ counted_chunk = <<>>
    /\ counted_tokens = 0
    /\ token_counts = <<>>
    /\ qpc = "idle"

\* no summarize_video call
CoreIdle ==
    /\ core_max_retries = 1
    /\ core_chunks = 0
    /\ has_cached_transcript = FALSE
    /\ core_cached_summary = NoneValue
    /\ chunk_index = 0
    /\ chunk_summaries = <<>>
    /\ core_attempt = 0
    /\ core_requests = <<>>
    /\ core_result = NoResult
    /\ upc = "idle"

\* the module-level cache of ytsummarator.py (line 211) and the cache of a
\* YouTubeSummarizer (core/summarizer.py, line 20), both over the directory
\* "cache"
CacheInstances == {"module", "summarizer"}

NotConstructed == [constructed |-> FALSE, metadata |-> <<>>]

\* no second Cache instance in use
SharedIdle ==
    /\ instance_metadata = [c \in CacheInstances |-> NotConstructed]
    /\ cached_keys = {}
    /\ shared_calls = 0

OtherIdle == PipelineIdle /\ CountedIdle /\ CoreIdle /\ SharedIdle

\* lines 252-263
SplitText ==
    /\ cpc = "start"
    /\ sentences' = Sentences(text)
    /\ cpc' = "loop"
    /\ UNCHANGED <<text, max_tokens, overlap_tokens, pos, chunks,
                   current_chunk, current_tokens, seeds>>
    /\ UNCHANGED <<jvars, rvars, wvars, kvars, ovars>>

\* lines 265-295, one iteration of `for sentence in sentences`
LoopBody ==
    /\ cpc = "loop"
    /\ pos <= Len(sentences)
    /\ LET sentence == sentences[pos]
           sentence_token_count == Tokens(sentence)
       IN IF ShouldClose(current_tokens, sentence_token_count, current_chunk, max_tokens)
          THEN LET overlap == OverlapItems(current_chunk, overlap_tokens)
                   overlap_tokens_count == OverlapCount(current_chunk, overlap_tokens)
               IN /\ chunks' = Append(chunks, [text |-> Flatten(current_chunk),
                                               token_count |-> current_tokens])
                  /\ seeds' = Append(seeds, [overlap |-> Flatten(overlap),
                                             tokens |-> overlap_tokens_count])
                  /\ current_chunk' = Append(SeedChunk(overlap), sentence)
                  /\ current_tokens' = overlap_tokens_count + sentence_token_count
          ELSE /\ current_chunk' = Append(current_chunk, sentence)
               /\ current_tokens' = current_tokens + sentence_token_count
               /\ UNCHANGED <<chunks, seeds>>
    /\ pos' = pos + 1
    /\ UNCHANGED <<text, max_tokens, overlap_tokens, sentences, cpc>>
    /\ UNCHANGED <<jvars, rvars, wvars, kvars, ovars>>

\* lines 297-305
EmitLast ==
    /\ cpc = "loop"
    /\ pos > Len(sentences)
    /\ chunks' = IF current_chunk # <<>>
                 THEN Append(chunks, [text |-> Flatten(current_chunk),
                                      token_count |-> current_tokens])
                 ELSE chunks
    /\ cpc' = "done"
    /\ UNCHANGED <<text, max_tokens, overlap_tokens, sentences, pos,
                   current_chunk, current_tokens, seeds>>
    /\ UNCHANGED <<jvars, rvars, wvars, kvars, ovars>>

Init == ChunkInit /\ JobIdle /\ RetryIdle /\ WorkerIdle /\ CacheIdle /\ OtherIdle

Next == SplitText \/ LoopBody \/ EmitLast

Spec == Init /\ [][Next]_vars

----------------------------------------------------------------------------
(* get_summary and generate_summary *)

\* generate_chunk_summary, lines 361-463: the content of the response, or ""
\* when the request raises
GenerateChunkSummary(c, outcome) ==
    IF outcome = "content" THEN ChunkSummary(c) ELSE EmptyString

\* generate_final_summary, lines 465-522: the content of the response, or
\* None when the request raises
GenerateFinalSummary(summaries, outcome) ==
    CASE outcome = "content" -> FinalSummary(summaries)
      [] outcome = "empty" -> EmptyString
      [] OTHER -> NoneValue

Max(a, b) == IF a >= b THEN a ELSE b

\* line 555 without the two limits
AdaptiveDelayUnclamped(token_count) == (token_count * 1000) \div 500

\* line 555: adaptive_delay = max(5, min(20, chunk['token_count'] / 500)),
\* in milliseconds
AdaptiveDelay(token_count) ==
    Max(5000, Min(20000, (token_count * 1000) \div 500))

\* lines 565-566 with the check of line 565 dropped
CollectUnchecked(summaries, new_summary) == Append(summaries, new_summary)

\* lines 565-566: if summary: intermediate_summaries.append(summary)
Collect(summaries, new_summary) ==
    IF Truthy(new_summary) THEN Append(summaries, new_summary) ELSE summaries

\* line 582 written as `intermediate_summaries is None`
NoSummariesIsNone(summaries) == FALSE

\* line 582: not intermediate_summaries
NoSummaries(summaries) == summaries = <<>>

total_chunks == Len(job_chunks)

ChunkIdle ==
    /\ text = <<>>
    /\ max_tokens = 1
    /\ overlap_tokens = 0
    /\ sentences = <<>>
    /\ pos = 1
    /\ chunks = <<>>
    /\ current_chunk = <<>>
    /\ current_tokens = 0
    /\ seeds = <<>>
    /\ cpc = "idle"

\* get_summary has the transcript (line 653) of a video that chunk_transcript
\* cuts into job_chunks; a summary may be cached from an earlier job
JobInit ==
    /\ job_chunks \in JobChunkLists
    /\ max_retries \in 1..MaxRetries
    /\ failure \in Failures
    /\ summary_cache \in {NoneValue, FinalSummary(<<ChunkSummary(0)>>)}
    /\ jpc = "get_summary"
    /\ i = 0
    /\ retry = 0
    /\ intermediate_summaries = <<>>
    /\ summary = NoneValue
    /\ saved = NoneValue
    /\ events = <<>>

\* get_summary lines 659-665 (and 670-690 on a cache hit)
CheckSummaryCache ==
    /\ jpc = "get_summary"
    /\ IF Truthy(summary_cache)
       THEN /\ summary' = summary_cache
            /\ saved' = summary_cache
            /\ jpc' = "done"
       ELSE /\ jpc' = "generate"
            /\ UNCHANGED <<summary, saved>>
    /\ UNCHANGED <<job_chunks, max_retries, failure, summary_cache, i, retry, intermediate_summaries, events>>
    /\ UNCHANGED <<cvars, rvars, wvars, kvars, ovars>>

\* generate_summary lines 526-549; without an API key the ValueError of line
\* 529 is caught at line 610
StartGenerate ==
    /\ jpc = "generate"
    /\ \E has_key \in BOOLEAN :
          IF has_key
          THEN /\ intermediate_summaries' = <<>>
               /\ i' = 0
               /\ jpc' = "for_chunk"
               /\ UNCHANGED summary
          ELSE /\ summary' = NoneValue
               /\ jpc' = "returned"
               /\ UNCHANGED <<intermediate_summaries, i>>
    /\ UNCHANGED <<job_chunks, max_retries, failure, summary_cache, retry, saved, events>>
    /\ UNCHANGED <<cvars, rvars, wvars, kvars, ovars>>

\* lines 550-557: next chunk, progress.update, first attempt ahead
ForChunk ==
    /\ jpc = "for_chunk"
    /\ i < total_chunks
    /\ events' = Append(events, Event("progress", i, 0, "", job_chunks[i + 1], <<>>))
    /\ retry' = 0
    /\ jpc' = "attempt"
    /\ UNCHANGED <<job_chunks, max_retries, failure, summary_cache, i, intermediate_summaries, summary, saved>>
    /\ UNCHANGED <<cvars, rvars, wvars, kvars, ovars>>

\* lines 557-570: one pass of `for retry in range(max_retries)`.  The handler
\* of lines 571-580 never runs for a failed request: generate_chunk_summary
\* catches every exception itself and returns "", so a failed attempt only
\* falls through to the next pass, and after the last pass to the next chunk
Attempt ==
    /\ jpc = "attempt"
    /\ retry < max_retries
    /\ \E outcome \in {"content", failure} :
          LET new_summary == GenerateChunkSummary(i, outcome)
              slept == IF retry > 0
                       THEN <<Event("sleep_retry", i, retry, "", 0, <<>>)>>
                       ELSE <<>>
              request == <<Event("chunk_request", i, retry, outcome, 0, <<>>)>>
              adaptive == IF Truthy(new_summary) /\ i < total_chunks - 1
                          THEN <<Event("sleep_adaptive", i, 0, "", job_chunks[i + 1],
                                       AdaptiveDelay(job_chunks[i + 1]))>>
                          ELSE <<>>
          IN /\ events' = events \o slept \o request \o adaptive
             /\ intermediate_summaries' = Collect(intermediate_summaries, new_summary)
             /\ IF LeavesRetryLoop(new_summary, retry, max_retries)
                THEN /\ i' = i + 1
                     /\ jpc' = "for_chunk"
                     /\ UNCHANGED retry
                ELSE /\ retry' = retry + 1
                     /\ UNCHANGED <<i, jpc>>
    /\ UNCHANGED <<job_chunks, max_retries, failure, summary_cache, summary, saved>>
    /\ UNCHANGED <<cvars, rvars, wvars, kvars, ovars>>

\* lines 582-588: the chunk loop is over
LoopEnd ==
    /\ jpc = "for_chunk"
    /\ i = total_chunks
    /\ IF NoSummaries(intermediate_summaries)
       THEN /\ summary' = NoneValue
            /\ jpc' = "returned"
            /\ UNCHANGED retry
       ELSE /\ retry' = 0
            /\ jpc' = "final"
            /\ UNCHANGED summary
    /\ UNCHANGED <<job_chunks, max_retries, failure, summary_cache, i, intermediate_summaries, saved, events>>
    /\ UNCHANGED <<cvars, rvars, wvars, kvars, ovars>>

\* lines 588-597: the first pass of the final retry loop returns whatever
\* generate_final_summary returned
FinalAttempt ==
    /\ jpc = "final"
    /\ retry < max_retries
    /\ \E outcome \in {"content", failure} :
          LET slept == IF retry > 0
                       THEN <<Event("sleep_retry", total_chunks, retry, "", 0, <<>>)>>
                       ELSE <<>>
              request == <<Event("final_request", total_chunks, retry, outcome, 0,
                                 intermediate_summaries)>>
              complete == <<Event("complete", total_chunks, 0, "", 0, <<>>)>>
          IN /\ events' = events \o slept \o request \o complete
             /\ summary' = GenerateFinalSummary(intermediate_summaries, outcome)
    /\ jpc' = "returned"
    /\ UNCHANGED <<job_chunks, max_retries, failure, summary_cache, i, retry, intermediate_summaries, saved>>
    /\ UNCHANGED <<cvars, rvars, wvars, kvars, ovars>>

\* get_summary lines 665-690: cache and save what generate_summary returned
StoreSummary ==
    /\ jpc = "returned"
    /\ summary_cache' = IF Truthy(summary) THEN summary ELSE summary_cache
    /\ saved' = IF Truthy(summary) THEN summary ELSE saved
    /\ jpc' = "done"
    /\ UNCHANGED <<job_chunks, max_retries, failure, i, retry, intermediate_summaries, summary, events>>
    /\ UNCHANGED <<cvars, rvars, wvars, kvars, ovars>>

NextJob ==
    \/ CheckSummaryCache
    \/ StartGenerate
    \/ ForChunk
    \/ Attempt
    \/ LoopEnd
    \/ FinalAttempt
    \/ StoreSummary

InitJob == ChunkIdle /\ JobInit /\ RetryIdle /\ WorkerIdle /\ CacheIdle /\ OtherIdle

SpecJob == InitJob /\ [][NextJob]_vars

----------------------------------------------------------------------------
(* retry_with_backoff *)

MaxAttempts == 3

\* base_delay: the default 1.0, and the 5 and 10 seconds of the configuration
BaseDelays == {1000, 5000, 10000}

\* max_delay: the default 10.0, and a limit no delay reaches
MaxDelays == {10000, 600000}

RetryInit ==
    /\ rwb_max_retries \in 0..MaxAttempts
    /\ base_delay \in BaseDelays
    /\ max_delay \in MaxDelays
    /\ jitter \in BOOLEAN
    /\ attempt = 0
    /\ func_calls = <<>>
    /\ delays = <<>>
    /\ result = NoResult
    /\ rpc = "loop"

\* lines 34-51: one pass of `for attempt in range(max_retries)`
RetryAttempt ==
    /\ rpc = "loop"
    /\ attempt < rwb_max_retries
    /\ \E outcome \in Outcomes :
          /\ func_calls' = Append(func_calls, outcome)
          /\ IF outcome = "content"
             THEN /\ result' = FuncResult
                  /\ rpc' = "returned"
                  /\ UNCHANGED <<attempt, delays>>
             ELSE IF IsLastAttempt(attempt, rwb_max_retries)
             THEN /\ result' = RetryError(rwb_max_retries, outcome)
                  /\ rpc' = "raised"
                  /\ UNCHANGED <<attempt, delays>>
             ELSE /\ \E fraction \in Fractions :
                        LET delay == BackoffDelay(base_delay, max_delay, attempt)
                        IN delays' = Append(delays, IF jitter
                                                    THEN Jittered(delay, fraction)
                                                    ELSE delay)
                  /\ attempt' = attempt + 1
                  /\ UNCHANGED <<result, rpc>>
    /\ UNCHANGED <<rwb_max_retries, base_delay, max_delay, jitter>>
    /\ UNCHANGED <<cvars, jvars, wvars, kvars, ovars>>

\* line 53: the loop ended without a return or a raise
RetryLoopEnd ==
    /\ rpc = "loop"
    /\ attempt >= rwb_max_retries
    /\ result' = RetryError(rwb_max_retries, "")
    /\ rpc' = "raised"
    /\ UNCHANGED <<rwb_max_retries, base_delay, max_delay, jitter, attempt,
                   func_calls, delays>>
    /\ UNCHANGED <<cvars, jvars, wvars, kvars, ovars>>

NextRetry == RetryAttempt \/ RetryLoopEnd

InitRetry == ChunkIdle /\ JobIdle /\ RetryInit /\ WorkerIdle /\ CacheIdle /\ OtherIdle

SpecRetry == InitRetry /\ [][NextRetry]_vars

----------------------------------------------------------------------------
(* SummaryWorker of src/youtube_downloader_gui.py: run() on the worker      *)
(* thread, cancel() on the GUI thread                                       *)

MaxUrls == 2

MaxWorkerChunks == 2

\* the chunk lists of the transcripts the worker summarizes
WorkerChunkLists == {l \in JobChunkLists : Len(l) <= MaxWorkerChunks}

WorkerInit ==
    /\ n_urls \in 1..MaxUrls
    /\ url_index = 0
    /\ is_cancelled = FALSE
    /\ cancel_mark = NoMark
    /\ wrappers = 0
    /\ original_get_filename = 0
    /\ run_ok = TRUE
    /\ finished_emits = <<>>
    /\ wpc = "start"

\* lines 331-335: a cancelled worker returns at once; `import ytsummarator`
\* can raise, which the handler of line 399 catches
WorkerRun ==
    /\ wpc = "start"
    /\ \E imported \in BOOLEAN :
          IF is_cancelled
          THEN wpc' = "done" /\ UNCHANGED run_ok
          ELSE IF imported
          THEN wpc' = "loop" /\ UNCHANGED run_ok
          ELSE wpc' = "check" /\ run_ok' = FALSE
    /\ UNCHANGED <<n_urls, url_index, is_cancelled, cancel_mark, wrappers,
                   original_get_filename, finished_emits>>
    /\ UNCHANGED <<cvars, jvars, rvars, kvars, ovars>>

\* lines 336-374: the next url, up to the call of generate_summary; a url
\* without a video id or without a transcript is skipped (lines 343-346,
\* 366-369), the second after lines 353-361 have put a wrapper around
\* yt_sum.get_next_available_filename
WorkerNextUrl ==
    /\ wpc = "loop"
    /\ url_index < n_urls
    /\ ~is_cancelled
    /\ \E step \in {"no_video_id", "no_transcript", "summarize"} :
          IF step = "summarize"
          THEN /\ job_chunks' \in WorkerChunkLists
               /\ max_retries' \in 1..MaxRetries
               /\ failure' \in Failures
               /\ events' = <<>>
               /\ summary' = NoneValue
               /\ jpc' = "generate"
               /\ wpc' = "summarizing"
               /\ original_get_filename' = wrappers
               /\ wrappers' = wrappers + 1
               /\ UNCHANGED url_index
          ELSE /\ url_index' = url_index + 1
               /\ IF step = "no_transcript"
                  THEN /\ original_get_filename' = wrappers
                       /\ wrappers' = wrappers + 1
                  ELSE UNCHANGED <<original_get_filename, wrappers>>
               /\ UNCHANGED <<job_chunks, max_retries, failure, events, summary, jpc, wpc>>
    /\ UNCHANGED <<summary_cache, i, retry, intermediate_summaries, saved>>
    /\ UNCHANGED <<n_urls, is_cancelled, cancel_mark, run_ok, finished_emits>>
    /\ UNCHANGED <<cvars, rvars, kvars, ovars>>

\* lines 375-393: generate_summary returned; a summary is written to its
\* file and line 387 puts back the function of line 353; when the file
\* cannot be written the handler of line 391 is all that follows
WorkerSave ==
    /\ wpc = "summarizing"
    /\ jpc = "returned"
    /\ \E written \in BOOLEAN :
          IF Truthy(summary) /\ ~written
          THEN UNCHANGED <<saved, wrappers>>
          ELSE /\ saved' = IF Truthy(summary) THEN summary ELSE saved
               /\ wrappers' = original_get_filename
    /\ url_index' = url_index + 1
    /\ jpc' = "idle"
    /\ wpc' = "loop"
    /\ UNCHANGED <<job_chunks, max_retries, failure, summary_cache, i, retry,
                   intermediate_summaries, summary, events>>
    /\ UNCHANGED <<n_urls, is_cancelled, cancel_mark, original_get_filename,
                   run_ok, finished_emits>>
    /\ UNCHANGED <<cvars, rvars, kvars, ovars>>

\* lines 337-338: the loop ends with the last url or at the `break` of a
\* cancelled worker
WorkerLoopEnd ==
    /\ wpc = "loop"
    /\ url_index = n_urls \/ is_cancelled
    /\ wpc' = "check"
    /\ UNCHANGED <<n_urls, url_index, is_cancelled, cancel_mark, wrappers,
                   original_get_filename, run_ok, finished_emits>>
    /\ UNCHANGED <<cvars, jvars, rvars, kvars, ovars>>

\* line 395, or line 400 in the handler: `if not self.is_cancelled` reads
\* the flag
WorkerCheckCancelled ==
    /\ wpc = "check"
    /\ wpc' = IF is_cancelled THEN "done" ELSE "emit"
    /\ UNCHANGED <<n_urls, url_index, is_cancelled, cancel_mark, wrappers,
                   original_get_filename, run_ok, finished_emits>>
    /\ UNCHANGED <<cvars, jvars, rvars, kvars, ovars>>

\* lines 396-397, or line 401: self.finished.emit(...), the last statement
\* of run()
WorkerEmitFinished ==
    /\ wpc = "emit"
    /\ finished_emits' = Append(finished_emits,
                                [success |-> run_ok, is_cancelled |-> is_cancelled])
    /\ wpc' = "done"
    /\ UNCHANGED <<n_urls, url_index, is_cancelled, cancel_mark, wrappers,
                   original_get_filename, run_ok>>
    /\ UNCHANGED <<cvars, jvars, rvars, kvars, ovars>>

\* lines 403-405, called from the GUI thread at any time
Cancel ==
    /\ wpc # "done"
    /\ ~is_cancelled
    /\ is_cancelled' = TRUE
    /\ cancel_mark' = [pc |-> jpc, chunk |-> i, at |-> Len(events)]
    /\ UNCHANGED <<n_urls, url_index, wrappers, original_get_filename, run_ok,
                   finished_emits, wpc>>
    /\ UNCHANGED <<cvars, jvars, rvars, kvars, ovars>>

NextWorker ==
    \/ WorkerRun
    \/ WorkerNextUrl
    \/ StartGenerate
    \/ ForChunk
    \/ Attempt
    \/ LoopEnd
    \/ FinalAttempt
    \/ WorkerSave
    \/ WorkerLoopEnd
    \/ WorkerCheckCancelled
    \/ WorkerEmitFinished
    \/ Cancel

InitWorker == ChunkIdle /\ JobIdle /\ RetryIdle /\ WorkerInit /\ CacheIdle /\ OtherIdle

SpecWorker == InitWorker /\ [][NextWorker]_vars

----------------------------------------------------------------------------
(* Cache: calls on one instance, with time passing between them *)

MaxCacheCalls == 3

VideoIds == {<<"a">>, <<"a", "b">>}

Depths == {<<"basic">>}

Models == {<<"gpt-4">>}

\* transcripts: lists of segments
TranscriptValues == {<<[text |-> <<"x">>]>>, <<[text |-> <<"x", "\r">>]>>}

SummaryValues == {<<"x">>, <<"x", "\n">>, <<"x", "\r">>}

\* the days on which something happens
Days == {0, 1, 30, 31}

MaxAges == {1, 30}

\* os.linesep on POSIX and on Windows
LineSeps == {<<"\n">>, <<"\r", "\n">>}

\* line 43 / line 47: os.path.exists(path)
has_transcript(video_id) == TranscriptPath(video_id) \in DOMAIN files

has_summary(video_id, depth, model) ==
    SummaryPath(video_id, depth, model) \in DOMAIN files

\* lines 49-54
get_transcript(video_id) ==
    IF has_transcript(video_id)
    THEN JsonLoad(ReadText(files[TranscriptPath(video_id)]))
    ELSE NoneValue

\* lines 56-61
get_summary(video_id, depth, model) ==
    IF has_summary(video_id, depth, model)
    THEN ReadText(files[SummaryPath(video_id, depth, model)])
    ELSE NoneValue

\* the keys of the history last_written
TKey(video_id) ==
    [kind |-> "transcript", video_id |-> video_id, depth |-> <<>>, model |-> <<>>]

SKey(video_id, depth, model) ==
    [kind |-> "summary", video_id |-> video_id, depth |-> depth, model |-> model]

PathOf(k) ==
    IF k.kind = "transcript" THEN TranscriptPath(k.video_id)
    ELSE SummaryPath(k.video_id, k.depth, k.model)

CacheInit ==
    /\ files = EmptyMap
    /\ metadata = <<>>
    /\ saved_metadata = <<>>
    /\ now = 0
    /\ linesep \in LineSeps
    /\ last_written = EmptyMap
    /\ last_op = NoCleanup
    /\ cache_calls = 0

\* lines 63-71
CacheTranscript ==
    /\ cache_calls < MaxCacheCalls
    /\ \E video_id \in VideoIds, transcript \in TranscriptValues :
          /\ files' = Put(files, TranscriptPath(video_id),
                          WriteText(JsonDump(transcript), linesep))
          /\ metadata' = SetItem(metadata, TranscriptKey(video_id), now)
          /\ saved_metadata' = metadata'
          /\ last_written' = Put(last_written, TKey(video_id), transcript)
    /\ last_op' = NoCleanup
    /\ cache_calls' = cache_calls + 1
    /\ UNCHANGED <<now, linesep>>
    /\ UNCHANGED <<cvars, jvars, rvars, wvars, ovars>>

\* lines 73-81
CacheSummary ==
    /\ cache_calls < MaxCacheCalls
    /\ \E video_id \in VideoIds, depth \in Depths, model \in Models,
          new_summary \in SummaryValues :
          /\ files' = Put(files, SummaryPath(video_id, depth, model),
                          WriteText(new_summary, linesep))
          /\ metadata' = SetItem(metadata, SummaryKey(video_id, depth, model), now)
          /\ saved_metadata' = metadata'
          /\ last_written' = Put(last_written, SKey(video_id, depth, model),
                                 new_summary)
    /\ last_op' = NoCleanup
    /\ cache_calls' = cache_calls + 1
    /\ UNCHANGED <<now, linesep>>
    /\ UNCHANGED <<cvars, jvars, rvars, wvars, ovars>>

\* lines 83-98; an exception of the loop leaves cleanup before save_metadata
Cleanup ==
    /\ cache_calls < MaxCacheCalls
    /\ \E max_age_days \in MaxAges :
          LET st == CleanupFrom(metadata, 1, now, max_age_days,
                                [files |-> files, metadata |-> metadata,
                                 raised |-> "none"])
              removed == DOMAIN files \ DOMAIN st.files
          IN /\ files' = st.files
             /\ metadata' = st.metadata
             /\ saved_metadata' = IF st.raised = "none" THEN st.metadata
                                  ELSE saved_metadata
             /\ last_written' =
                   [k \in {g \in DOMAIN last_written : PathOf(g) \notin removed}
                      |-> last_written[k]]
             /\ last_op' = [op |-> "cleanup", max_age_days |-> max_age_days,
                            at |-> now,
                            before |-> [files |-> files, metadata |-> metadata],
                            raised |-> st.raised]
    /\ cache_calls' = cache_calls + 1
    /\ UNCHANGED <<now, linesep>>
    /\ UNCHANGED <<cvars, jvars, rvars, wvars, ovars>>

\* time passes
Tick ==
    /\ \E day \in Days : day > now /\ now' = day
    /\ UNCHANGED <<files, metadata, saved_metadata, linesep, last_written,
                   last_op, cache_calls>>
    /\ UNCHANGED <<cvars, jvars, rvars, wvars, ovars>>

NextCache == CacheTranscript \/ CacheSummary \/ Cleanup \/ Tick

InitCache == ChunkIdle /\ JobIdle /\ RetryIdle /\ WorkerIdle /\ CacheInit /\ OtherIdle

SpecCache == InitCache /\ [][NextCache]_vars

----------------------------------------------------------------------------
(* get_summary of ytsummarator.py, lines 635-710: one video, run again and
   again over the same cache directory *)

MaxRuns == 2

SummaryDepths == {"basic", "detailed"}

ModelNames == {"gpt-4", "gpt-3.5-turbo-16k"}

\* line 524: the defaults of generate_summary's parameters depth and model
DefaultDepth == "detailed"

DefaultModel == "gpt-3.5-turbo-16k"

\* line 614: the default of parameter max_retries
TranscriptRetries == 3

\* the text generate_summary returns when it was called for depth and model
SummaryBy(depth, model) ==
    [kind |-> "final", chunk |-> 0, of |-> <<>>, depth |-> depth, model |-> model]

\* lines 140-142: the summary entries are told apart by depth and model
DepthModel(depth, model) == [depth |-> depth, model |-> model]

\* line 666 without the test
CachesSummaryAlways(new_summary) == TRUE

\* line 666: `if summary:` before cache.cache_summary
CachesSummary(new_summary) == Truthy(new_summary)

\* what a run leaves in run_log
RunRecord(calls, returned) ==
    [at_start |-> at_start, net_calls |-> calls, returned |-> returned,
     depth |-> SUMMARY_DEPTH, model |-> OPENAI_MODEL]

PipelineInit ==
    /\ SUMMARY_DEPTH = DefaultDepth
    /\ OPENAI_MODEL = DefaultModel
    /\ cached_transcript \in BOOLEAN
    /\ cached_summaries \in
          {EmptyMap,
           Put(EmptyMap, DepthModel(DefaultDepth, DefaultModel),
               SummaryBy(DefaultDepth, DefaultModel))}
    /\ fetch_attempt = 0
    /\ net_calls = <<>>
    /\ at_start = NoRun
    /\ run_log = <<>>
    /\ runs = 0
    /\ gpc = "idle"

\* lines 635-641: a run starts, with the environment of its process
StartRun ==
    /\ gpc \in {"idle", "done"}
    /\ runs < MaxRuns
    /\ SUMMARY_DEPTH' \in SummaryDepths
    /\ OPENAI_MODEL' \in ModelNames
    /\ runs' = runs + 1
    /\ net_calls' = <<>>
    /\ at_start' = [transcript |-> cached_transcript,
                    summaries |-> cached_summaries]
    /\ fetch_attempt' = 0
    /\ gpc' = "title"
    /\ UNCHANGED <<cached_transcript, cached_summaries, run_log>>
    /\ UNCHANGED <<cvars, jvars, rvars, wvars, kvars, qvars, uvars, hvars>>

\* lines 643-646: get_video_title asks yt_dlp for the video's metadata (lines
\* 316-330) and returns the video id when that fails
GetVideoTitle ==
    /\ gpc = "title"
    /\ net_calls' = Append(net_calls, "video_metadata")
    /\ gpc' = "transcript"
    /\ UNCHANGED <<SUMMARY_DEPTH, OPENAI_MODEL, cached_transcript,
                   cached_summaries, fetch_attempt, at_start, run_log, runs>>
    /\ UNCHANGED <<cvars, jvars, rvars, wvars, kvars, qvars, uvars, hvars>>

\* lines 650, 616-619: get_transcript_with_retry looks into the cache
CheckTranscriptCache ==
    /\ gpc = "transcript"
    /\ gpc' = IF cached_transcript THEN "summary" ELSE "fetch"
    /\ fetch_attempt' = 0
    /\ UNCHANGED <<SUMMARY_DEPTH, OPENAI_MODEL, cached_transcript,
                   cached_summaries, net_calls, at_start, run_log, runs>>
    /\ UNCHANGED <<cvars, jvars, rvars, wvars, kvars, qvars, uvars, hvars>>

\* lines 622-633: one pass of the fetch loop; the last failure is raised and
\* caught at line 708, where the run ends with None
FetchTranscript ==
    /\ gpc = "fetch"
    /\ net_calls' = Append(net_calls, "transcript")
    /\ \E fetched \in BOOLEAN :
          IF fetched
          THEN /\ cached_transcript' = TRUE
               /\ gpc' = "summary"
               /\ UNCHANGED <<fetch_attempt, run_log>>
          ELSE IF fetch_attempt = TranscriptRetries - 1
          THEN /\ gpc' = "done"
               /\ run_log' = Append(run_log, RunRecord(net_calls', NoneValue))
               /\ UNCHANGED <<cached_transcript, fetch_attempt>>
          ELSE /\ fetch_attempt' = fetch_attempt + 1
               /\ UNCHANGED <<cached_transcript, gpc, run_log>>
    /\ UNCHANGED <<SUMMARY_DEPTH, OPENAI_MODEL, cached_summaries, at_start, runs>>
    /\ UNCHANGED <<cvars, jvars, rvars, wvars, kvars, qvars, uvars, hvars>>

\* lines 656-661: the summary of the environment's depth and model is cached
UseCachedSummary ==
    /\ gpc = "summary"
    /\ DepthModel(SUMMARY_DEPTH, OPENAI_MODEL) \in DOMAIN cached_summaries
    /\ gpc' = "done"
    /\ run_log' = Append(run_log,
          RunRecord(net_calls,
                    cached_summaries[DepthModel(SUMMARY_DEPTH, OPENAI_MODEL)]))
    /\ UNCHANGED <<SUMMARY_DEPTH, OPENAI_MODEL, cached_transcript,
                   cached_summaries, fetch_attempt, net_calls, at_start, runs>>
    /\ UNCHANGED <<cvars, jvars, rvars, wvars, kvars, qvars, uvars, hvars>>

\* lines 662-668: generate_summary(full_transcript) runs with its default
\* depth and model and returns the summary or None; a summary is cached under
\* the environment's depth and model
GenerateAndCache ==
    /\ gpc = "summary"
    /\ DepthModel(SUMMARY_DEPTH, OPENAI_MODEL) \notin DOMAIN cached_summaries
    /\ net_calls' = Append(net_calls, "text_generation")
    /\ \E new_summary \in {SummaryBy(DefaultDepth, DefaultModel), NoneValue} :
          /\ cached_summaries' =
                IF CachesSummary(new_summary)
                THEN Put(cached_summaries,
                         DepthModel(SUMMARY_DEPTH, OPENAI_MODEL), new_summary)
                ELSE cached_summaries
          /\ run_log' = Append(run_log, RunRecord(net_calls', new_summary))
    /\ gpc' = "done"
    /\ UNCHANGED <<SUMMARY_DEPTH, OPENAI_MODEL, cached_transcript,
                   fetch_attempt, at_start, runs>>
    /\ UNCHANGED <<cvars, jvars, rvars, wvars, kvars, qvars, uvars, hvars>>

NextPipeline ==
    \/ StartRun
    \/ GetVideoTitle
    \/ CheckTranscriptCache
    \/ FetchTranscript
    \/ UseCachedSummary
    \/ GenerateAndCache

InitPipeline ==
    /\ ChunkIdle /\ JobIdle /\ RetryIdle /\ WorkerIdle /\ CacheIdle
    /\ PipelineInit /\ CountedIdle /\ CoreIdle /\ SharedIdle

SpecPipeline == InitPipeline /\ [][NextPipeline]_vars

----------------------------------------------------------------------------
(* chunk_transcript(text, model) with the parameters of get_chunk_parameters,
   lines 250-305, for transcripts of a given total token count *)

MaxSentences == 3

\* the window of the scenario and its half
ContextWindows == {8000, 16000}

\* a number of the 16000-token scenario, scaled to the window
Scaled(n, window) == (n * window) \div 16000

\* the total token count of the scenario's transcript
ScenarioTotal(window) == Scaled(9000, window)

\* the largest sentence for which two chunks hold the whole transcript and
\* the overlap
TwoChunkSentence(window) ==
    LET limit == MaxChunkTokens(window)
    IN limit - OverlapTokens(limit) - (ScenarioTotal(window) - limit)

\* the sentences of the transcripts: of one word, or of two
ScenarioSentences(window) ==
    LET whole == TwoChunkSentence(window)
        one == {Scaled(100, window), Scaled(500, window), Scaled(2500, window),
                Scaled(2600, window), Scaled(3000, window), Scaled(3200, window),
                Scaled(3300, window), Scaled(5900, window),
                MaxChunkTokens(window), ScenarioTotal(window),
                whole, whole + 1, ScenarioTotal(window) - 2 * whole,
                ScenarioTotal(window) - 2 * whole - 1}
    IN {<<n>> : n \in one}
         \cup {<<Scaled(100, window), Scaled(500, window)>>,
               <<Scaled(500, window), Scaled(2500, window)>>}

ScenarioTranscripts(window) ==
    {t \in UNION {[1..n -> ScenarioSentences(window)] : n \in 1..MaxSentences} :
        SumSeq([n \in 1..Len(t) |-> CountOf(t[n])]) = ScenarioTotal(window)}

CountedInit ==
    /\ context_window \in ContextWindows
    /\ sentence_words \in ScenarioTranscripts(context_window)
    /\ counted_pos = 1
    /\ counted_chunk = <<>>
    /\ counted_tokens = 0
    /\ token_counts = <<>>
    /\ qpc = "loop"

\* lines 265-295, one iteration of `for sentence in sentences`
CountedLoopBody ==
    /\ qpc = "loop"
    /\ counted_pos <= Len(sentence_words)
    /\ LET limit == MaxChunkTokens(context_window)
           budget == OverlapTokens(limit)
           sentence == sentence_words[counted_pos]
           sentence_token_count == CountOf(sentence)
       IN IF ShouldClose(counted_tokens, sentence_token_count, counted_chunk, limit)
          THEN LET overlap == CountedOverlapItems(counted_chunk, budget)
                   overlap_tokens_count == CountedOverlap(counted_chunk, budget)
               IN /\ token_counts' = Append(token_counts, counted_tokens)
                  /\ counted_chunk' = Append(SeedChunk(overlap), sentence)
                  /\ counted_tokens' = overlap_tokens_count + sentence_token_count
          ELSE /\ counted_chunk' = Append(counted_chunk, sentence)
               /\ counted_tokens' = counted_tokens + sentence_token_count
               /\ UNCHANGED token_counts
    /\ counted_pos' = counted_pos + 1
    /\ UNCHANGED <<context_window, sentence_words, qpc>>
    /\ UNCHANGED <<cvars, jvars, rvars, wvars, kvars, pvars, uvars, hvars>>

\* lines 297-305
CountedEmitLast ==
    /\ qpc = "loop"
    /\ counted_pos > Len(sentence_words)
    /\ token_counts' = IF counted_chunk # <<>>
                       THEN Append(token_counts, counted_tokens)
                       ELSE token_counts
    /\ qpc' = "done"
    /\ UNCHANGED <<context_window, sentence_words, counted_pos, counted_chunk,
                   counted_tokens>>
    /\ UNCHANGED <<cvars, jvars, rvars, wvars, kvars, pvars, uvars, hvars>>

NextCounted == CountedLoopBody \/ CountedEmitLast

InitCounted ==
    /\ ChunkIdle /\ JobIdle /\ RetryIdle /\ WorkerIdle /\ CacheIdle
    /\ PipelineIdle /\ CountedInit /\ CoreIdle /\ SharedIdle

SpecCounted == InitCounted /\ [][NextCounted]_vars

----------------------------------------------------------------------------
(* YouTubeSummarizer.summarize_video of core/summarizer.py, lines 105-139;
   get_transcript and summarize_chunk call retry_with_backoff *)

MaxCoreChunks == 3

\* line 134: "\n\n".join(chunk_summaries)
JoinedSummary(summaries) ==
    [kind |-> "final", chunk |-> 0,
     of |-> [j \in 1..Len(summaries) |-> summaries[j].chunk]]

\* what summarize_video returned
Returns(value) == [kind |-> "returned", attempts |-> 0, message |-> "", value |-> value]

\* one retry_with_backoff call, as core_requests records it
CallRecord(what, c, passes, pass_result) ==
    [what |-> what, chunk |-> c, attempts |-> passes, result |-> pass_result]

CoreInit ==
    /\ core_max_retries \in 0..MaxAttempts
    /\ core_chunks \in 0..MaxCoreChunks
    /\ has_cached_transcript \in BOOLEAN
    /\ core_cached_summary \in {NoneValue, JoinedSummary(<<ChunkSummary(0)>>)}
    /\ chunk_index = 0
    /\ chunk_summaries = <<>>
    /\ core_attempt = 0
    /\ core_requests = <<>>
    /\ core_result = NoResult
    /\ upc = "start"

\* lines 108-112: the cached summary is returned
CoreUseCachedSummary ==
    /\ upc = "start"
    /\ core_cached_summary # NoneValue
    /\ core_result' = Returns(core_cached_summary)
    /\ upc' = "done"
    /\ UNCHANGED <<core_max_retries, core_chunks, has_cached_transcript,
                   core_cached_summary, chunk_index, chunk_summaries,
                   core_attempt, core_requests>>
    /\ UNCHANGED <<cvars, jvars, rvars, wvars, kvars, pvars, qvars, hvars>>

\* lines 115, 36-45: the cached transcript is used, or get_transcript enters
\* retry_with_backoff
CoreGetTranscript ==
    /\ upc = "start"
    /\ core_cached_summary = NoneValue
    /\ upc' = IF has_cached_transcript THEN "chunks" ELSE "fetching"
    /\ core_attempt' = 0
    /\ UNCHANGED <<core_max_retries, core_chunks, has_cached_transcript,
                   core_cached_summary, chunk_index, chunk_summaries,
                   core_requests, core_result>>
    /\ UNCHANGED <<cvars, jvars, rvars, wvars, kvars, pvars, qvars, hvars>>

\* lines 41-49, and lines 34-53 of utils/error.py: one pass of the retry loop
\* around the transcript request; the transcript is cached, or the
\* RetryError leaves get_transcript and summarize_video
CoreFetchPass ==
    /\ upc = "fetching"
    /\ \E outcome \in {"content", "error"} :
          LET pass_result == PassResult(outcome, core_attempt, core_max_retries)
              made == IF core_attempt < core_max_retries
                      THEN core_attempt + 1 ELSE core_attempt
          IN IF pass_result = "again"
             THEN /\ core_attempt' = core_attempt + 1
                  /\ UNCHANGED <<has_cached_transcript, core_requests,
                                 core_result, upc>>
             ELSE /\ core_requests' =
                        Append(core_requests,
                               CallRecord("transcript", 0, made, pass_result))
                  /\ core_attempt' = 0
                  /\ IF Propagates(pass_result)
                     THEN /\ core_result' =
                                RetryError(core_max_retries,
                                           IF core_attempt < core_max_retries
                                           THEN outcome ELSE "")
                          /\ upc' = "done"
                          /\ UNCHANGED has_cached_transcript
                     ELSE /\ has_cached_transcript' = TRUE
                          /\ upc' = "chunks"
                          /\ UNCHANGED core_result
    /\ UNCHANGED <<core_max_retries, core_chunks, core_cached_summary,
                   chunk_index, chunk_summaries>>
    /\ UNCHANGED <<cvars, jvars, rvars, wvars, kvars, pvars, qvars, hvars>>

\* lines 125-126, 90-101: summarize_chunk is called for the next chunk and
\* enters retry_with_backoff
CoreSummarizeChunk ==
    /\ upc = "chunks"
    /\ chunk_index < core_chunks
    /\ core_attempt' = 0
    /\ upc' = "summarizing"
    /\ UNCHANGED <<core_max_retries, core_chunks, has_cached_transcript,
                   core_cached_summary, chunk_index, chunk_summaries,
                   core_requests, core_result>>
    /\ UNCHANGED <<cvars, jvars, rvars, wvars, kvars, pvars, qvars, hvars>>

\* lines 92-103, 126-128, and lines 34-53 of utils/error.py: one pass of the
\* retry loop around the chunk's request; the summary is appended and the
\* loop goes on, or the RetryError leaves summarize_chunk and summarize_video
CoreChunkPass ==
    /\ upc = "summarizing"
    /\ \E outcome \in {"content", "error"} :
          LET pass_result == PassResult(outcome, core_attempt, core_max_retries)
              made == IF core_attempt < core_max_retries
                      THEN core_attempt + 1 ELSE core_attempt
          IN IF pass_result = "again"
             THEN /\ core_attempt' = core_attempt + 1
                  /\ UNCHANGED <<chunk_index, chunk_summaries, core_requests,
                                 core_result, upc>>
             ELSE /\ core_requests' =
                        Append(core_requests,
                               CallRecord("chunk", chunk_index, made, pass_result))
                  /\ core_attempt' = 0
                  /\ IF Propagates(pass_result)
                     THEN /\ core_result' =
                                RetryError(core_max_retries,
                                           IF core_attempt < core_max_retries
                                           THEN outcome ELSE "")
                          /\ upc' = "done"
                          /\ UNCHANGED <<chunk_index, chunk_summaries>>
                     ELSE /\ chunk_summaries' =
                                Append(chunk_summaries, ChunkSummary(chunk_index))
                          /\ chunk_index' = chunk_index + 1
                          /\ upc' = "chunks"
                          /\ UNCHANGED core_result
    /\ UNCHANGED <<core_max_retries, core_chunks, has_cached_transcript,
                   core_cached_summary>>
    /\ UNCHANGED <<cvars, jvars, rvars, wvars, kvars, pvars, qvars, hvars>>

\* lines 131-139: the summaries are joined, cached and returned
CoreFinish ==
    /\ upc = "chunks"
    /\ chunk_index >= core_chunks
    /\ core_cached_summary' = JoinedSummary(chunk_summaries)
    /\ core_result' = Returns(JoinedSummary(chunk_summaries))
    /\ upc' = "done"
    /\ UNCHANGED <<core_max_retries, core_chunks, has_cached_transcript,
                   chunk_index, chunk_summaries, core_attempt, core_requests>>
    /\ UNCHANGED <<cvars, jvars, rvars, wvars, kvars, pvars, qvars, hvars>>

NextCore ==
    \/ CoreUseCachedSummary
    \/ CoreGetTranscript
    \/ CoreFetchPass
    \/ CoreSummarizeChunk
    \/ CoreChunkPass
    \/ CoreFinish

InitCore ==
    /\ ChunkIdle /\ JobIdle /\ RetryIdle /\ WorkerIdle /\ CacheIdle
    /\ PipelineIdle /\ CountedIdle /\ CoreInit /\ SharedIdle

SpecCore == InitCore /\ [][NextCore]_vars

----------------------------------------------------------------------------
(* Two Cache instances over one cache directory: files and saved_metadata
   are the directory, instance_metadata the self.metadata of each instance *)

MaxSharedCalls == 3

\* lines 9-16, 18-26: Cache() loads cache_metadata.json into self.metadata
NewCache ==
    /\ \E c \in CacheInstances :
          instance_metadata' =
             [instance_metadata EXCEPT
                 ![c] = [constructed |-> TRUE, metadata |-> saved_metadata]]
    /\ UNCHANGED <<cached_keys, shared_calls>>
    /\ UNCHANGED kvars
    /\ UNCHANGED <<cvars, jvars, rvars, wvars, pvars, qvars, uvars>>

\* lines 63-71 on one of the instances: save_metadata (lines 28-31) writes
\* the instance's own self.metadata over cache_metadata.json
SharedCacheTranscript ==
    /\ shared_calls < MaxSharedCalls
    /\ \E c \in CacheInstances, video_id \in VideoIds,
          transcript \in TranscriptValues :
          /\ instance_metadata[c].constructed
          /\ files' = Put(files, TranscriptPath(video_id),
                          WriteText(JsonDump(transcript), linesep))
          /\ instance_metadata' =
                [instance_metadata EXCEPT
                    ![c].metadata = SetItem(@, TranscriptKey(video_id), now)]
          /\ saved_metadata' = instance_metadata'[c].metadata
          /\ cached_keys' = cached_keys \cup {TranscriptKey(video_id)}
    /\ shared_calls' = shared_calls + 1
    /\ UNCHANGED <<metadata, now, linesep, last_written, last_op, cache_calls>>
    /\ UNCHANGED <<cvars, jvars, rvars, wvars, pvars, qvars, uvars>>

\* lines 73-81 on one of the instances
SharedCacheSummary ==
    /\ shared_calls < MaxSharedCalls
    /\ \E c \in CacheInstances, video_id \in VideoIds, depth \in Depths,
          model \in Models, new_summary \in SummaryValues :
          /\ instance_metadata[c].constructed
          /\ files' = Put(files, SummaryPath(video_id, depth, model),
                          WriteText(new_summary, linesep))
          /\ instance_metadata' =
                [instance_metadata EXCEPT
                    ![c].metadata = SetItem(@, SummaryKey(video_id, depth, model),
                                            now)]
          /\ saved_metadata' = instance_metadata'[c].metadata
          /\ cached_keys' = cached_keys \cup {SummaryKey(video_id, depth, model)}
    /\ shared_calls' = shared_calls + 1
    /\ UNCHANGED <<metadata, now, linesep, last_written, last_op, cache_calls>>
    /\ UNCHANGED <<cvars, jvars, rvars, wvars, pvars, qvars, uvars>>

NextShared == NewCache \/ SharedCacheTranscript \/ SharedCacheSummary

InitShared ==
    /\ ChunkIdle /\ JobIdle /\ RetryIdle /\ WorkerIdle /\ CacheIdle
    /\ PipelineIdle /\ CountedIdle /\ CoreIdle /\ SharedIdle

SpecShared == InitShared /\ [][NextShared]_vars

----------------------------------------------------------------------------
(* Properties of chunk_transcript *)

Done == cpc = "done"

IsPrefix(p, s) == Len(p) <= Len(s) /\ SubSeq(s, 1, Len(p)) = p

IsSuffix(p, s) == Len(p) <= Len(s) /\ SubSeq(s, Len(s) - Len(p) + 1, Len(s)) = p

\* chunk k without the overlap prefix seeded from chunk k-1
NewPart(k) ==
    IF k = 1 THEN chunks[1].text
    ELSE SubSeq(chunks[k].text, Len(seeds[k - 1].overlap) + 1, Len(chunks[k].text))

\* the sentences of the first k chunks, overlaps removed
RECURSIVE NewSentencesUpTo(_)
NewSentencesUpTo(k) ==
    IF k = 0 THEN <<>> ELSE NewSentencesUpTo(k - 1) \o Sentences(NewPart(k))

\* the chunk that holds input sentence j outside its overlap prefix
Owner(j) ==
    CHOOSE k \in 1..Len(chunks) :
        Len(NewSentencesUpTo(k - 1)) < j /\ j <= Len(NewSentencesUpTo(k))

SentenceTokens == [j \in 1..Len(sentences) |-> Tokens(sentences[j])]

\* C1: every chunk has token_count <= max_tokens, unless the chunk is exactly
\* one sentence whose own token count exceeds max_tokens.
C1_TokenBound ==
    \A k \in 1..Len(chunks) :
        \/ chunks[k].token_count <= max_tokens
        \/ \E j \in 1..Len(sentences) :
              /\ chunks[k].text = sentences[j]
              /\ Tokens(sentences[j]) > max_tokens

\* C2: with the overlap prefix deleted from every chunk after the first, the
\* chunks concatenate to the input, sentence by sentence and in order; each
\* deleted prefix is a copy of the end of the previous chunk.
C2_Reconstruct ==
    Done =>
        /\ Len(seeds) = Len(chunks) - 1
        /\ \A k \in 2..Len(chunks) :
              /\ IsPrefix(seeds[k - 1].overlap, chunks[k].text)
              /\ IsSuffix(seeds[k - 1].overlap, chunks[k - 1].text)
        /\ Flatten([k \in 1..Len(chunks) |-> NewPart(k)]) = text
        /\ NewSentencesUpTo(Len(chunks)) = Sentences(text)

C2_Witness ==
    /\ Done
    /\ Len(chunks) >= 3
    /\ \A k \in 1..Len(seeds) : seeds[k].overlap # <<>>

\* C3: every chunk, its overlap prefix included, is a run of whole
\* consecutive sentences of the input.
C3_WholeSentences ==
    \A k \in 1..Len(chunks) :
        \E a \in 1..Len(sentences) : \E b \in a..Len(sentences) :
            chunks[k].text = Flatten(SubSeq(sentences, a, b))

LongestSuffixLen(ss, budget) ==
    LET fits(n) == SumSeq([q \in 1..n |-> Tokens(ss[Len(ss) - n + q])]) <= budget
        S == {n \in 0..Len(ss) : fits(n)}
    IN CHOOSE n \in S : \A m \in S : m <= n

\* C5: the overlap seeded when a chunk is closed is the longest suffix of the
\* closed chunk's sentences that totals at most overlap_tokens, and the next
\* chunk's running count starts at that total.
C5_OverlapIsSentenceSuffix ==
    \A k \in 1..Len(seeds) :
        LET ss == Sentences(chunks[k].text)
            n == LongestSuffixLen(ss, overlap_tokens)
            expected == SubSeq(ss, Len(ss) - n + 1, Len(ss))
        IN /\ seeds[k].overlap = Flatten(expected)
           /\ seeds[k].tokens = SumSeq([q \in 1..n |-> Tokens(expected[q])])

C7_TokenCountIsTokenization ==
    \A k \in 1..Len(chunks) : chunks[k].token_count = Tokens(chunks[k].text)

----------------------------------------------------------------------------
(* Properties of generate_summary and get_summary *)

\* generate_summary has returned to get_summary
Returned == jpc \in {"returned", "done"}

FinalRequests == SelectSeq(events, LAMBDA e : e.op = "final_request")

ChunkRequests(c) ==
    SelectSeq(events, LAMBDA e : e.op = "chunk_request" /\ e.chunk = c)

\* a request for chunk c returned a summary
Succeeded(c) ==
    \E k \in 1..Len(events) :
        /\ events[k].op = "chunk_request"
        /\ events[k].chunk = c
        /\ events[k].outcome = "content"

\* chunk c failed max_retries attempts
Exhausted(c) == Len(ChunkRequests(c)) = max_retries /\ ~Succeeded(c)

\* the summaries of the successful chunks among 0..n-1, by chunk index
RECURSIVE SuccessfulSummaries(_)
SuccessfulSummaries(n) ==
    IF n = 0 THEN <<>>
    ELSE IF Succeeded(n - 1)
         THEN Append(SuccessfulSummaries(n - 1), ChunkSummary(n - 1))
         ELSE SuccessfulSummaries(n - 1)

PartialSuccess ==
    /\ \E c \in 0..(total_chunks - 1) : Succeeded(c)
    /\ \E c \in 0..(total_chunks - 1) : Exhausted(c)

\* the reduction ran once, on the successful chunks' summaries in index order
ReducedSuccessful ==
    /\ \A c \in 0..(total_chunks - 1) : Succeeded(c) \/ Exhausted(c)
    /\ Len(FinalRequests) = 1
    /\ FinalRequests[1].arg = SuccessfulSummaries(total_chunks)

\* C8: with exactly one chunk and its one summary, generate_summary returns
\* that summary unchanged and sends no reduction request.
C8_SingleChunkBypass ==
    (Returned /\ total_chunks = 1 /\ Len(intermediate_summaries) = 1) =>
        /\ summary = intermediate_summaries[1]
        /\ FinalRequests = <<>>

\* C9 as claimed: when some chunk succeeds and some chunk fails all its
\* attempts, the reduction runs on exactly the successful summaries in index
\* order and the job ends with a final summary.
C9_PartialSuccessGivesSummary ==
    (Returned /\ PartialSuccess) =>
        /\ ReducedSuccessful
        /\ summary.kind = "final"

\* C9 as amended: ... the reduction runs on exactly the successful summaries
\* in index order, and the job ends with what that one reduction request
\* gives: the final summary if it succeeds, no output if it fails.
C9_PartialSuccessReduces ==
    (Returned /\ PartialSuccess) =>
        /\ ReducedSuccessful
        /\ summary = IF FinalRequests[1].outcome = "content"
                     THEN FinalSummary(SuccessfulSummaries(total_chunks))
                     ELSE NoneValue

C9_Witness ==
    /\ jpc = "done"
    /\ total_chunks = 3
    /\ max_retries = 2
    /\ Succeeded(0) /\ Exhausted(1) /\ Succeeded(2)
    /\ summary = FinalSummary(<<ChunkSummary(0), ChunkSummary(2)>>)

AllChunksFailed == \A c \in 0..(total_chunks - 1) : Exhausted(c)

\* C10: when every chunk fails all its attempts, generate_summary returns
\* None without a reduction request and get_summary caches nothing.
C10_AllFailedNoOutput ==
    (Returned /\ AllChunksFailed) =>
        /\ summary = NoneValue
        /\ FinalRequests = <<>>
        /\ summary_cache = NoneValue
        /\ saved = NoneValue

C10_Witness ==
    /\ jpc = "done"
    /\ total_chunks >= 2
    /\ max_retries >= 2
    /\ AllChunksFailed

----------------------------------------------------------------------------
(* Retries of the reduction request *)

\* generate_summary returned without a final summary after it had sent a
\* reduction request
ReductionFailed ==
    /\ Returned
    /\ FinalRequests # <<>>
    /\ summary.kind # "final"

\* C11: a failed reduction request is retried: the job ends without a final
\* summary only after max_retries reduction requests were made.
C11_ReductionRetried ==
    ReductionFailed => Len(FinalRequests) = max_retries

----------------------------------------------------------------------------
(* Properties of retry_with_backoff *)

RetryEnded == rpc \in {"returned", "raised"}

AllCallsFailed == \A k \in 1..Len(func_calls) : func_calls[k] # "content"

\* C12: when every call of the operation fails, retry_with_backoff calls it
\* exactly max_retries times and raises RetryError with the attempt count and
\* the last error's message, returning no value; it never makes a call beyond
\* max_retries; a successful call is the last one and its result is returned.
C12_RetryContract ==
    /\ Len(func_calls) <= rwb_max_retries
    /\ (RetryEnded /\ AllCallsFailed) =>
          /\ rpc = "raised"
          /\ Len(func_calls) = rwb_max_retries
          /\ result.kind = "RetryError"
          /\ result.attempts = rwb_max_retries
          /\ func_calls # <<>> => result.message = func_calls[Len(func_calls)]
    /\ \A k \in 1..Len(func_calls) :
          func_calls[k] = "content" =>
              /\ k = Len(func_calls)
              /\ rpc = "returned"
              /\ result = FuncResult

C12_Witness ==
    /\ rpc = "raised"
    /\ rwb_max_retries = 3
    /\ func_calls = <<"RateLimited", "AuthError", "RateLimited">>
    /\ result = RetryError(3, "RateLimited")

OnlyRateLimited == \A k \in 1..Len(func_calls) : func_calls[k] = "RateLimited"

\* C13: while the operation keeps failing with a rate-limit error, the delay
\* slept before retry k (k >= 1) is base_delay * 2^(k-1), whatever max_delay
\* (stated for calls without jitter, which leaves the delay exact).
C13_RateLimitDelayDoubles ==
    (OnlyRateLimited /\ ~jitter) =>
        \A k \in 1..Len(delays) : delays[k] = base_delay * Power(2, k - 1)

----------------------------------------------------------------------------
(* Non-retryable failures *)

\* C14: after a request for a chunk fails with an authentication error, no
\* backoff sleep and no further request for that chunk follows.
C14_NonRetryablePropagates ==
    \A k \in 1..Len(events) :
        (events[k].op = "chunk_request" /\ events[k].outcome = "AuthError") =>
            \A n \in (k + 1)..Len(events) :
                ~ /\ events[n].op \in {"sleep_retry", "chunk_request"}
                  /\ events[n].chunk = events[k].chunk

----------------------------------------------------------------------------
(* The adaptive delay between chunks *)

Clamp(x, lo, hi) == IF x < lo THEN lo ELSE IF x > hi THEN hi ELSE x

\* clamp(token_count / 500, 5, 20) seconds, in milliseconds
ClampedDelay(token_count) == Clamp(2 * token_count, 5000, 20000)

AdaptiveSleeps(c) ==
    SelectSeq(events, LAMBDA e : e.op = "sleep_adaptive" /\ e.chunk = c)

\* the position in events of the first request for chunk c, 0 if none
FirstRequestAt(c) ==
    IF ChunkRequests(c) = <<>> THEN 0
    ELSE CHOOSE k \in 1..Len(events) :
            /\ events[k].op = "chunk_request" /\ events[k].chunk = c
            /\ \A n \in 1..(k - 1) :
                  ~(events[n].op = "chunk_request" /\ events[n].chunk = c)

\* the adaptive sleeps for chunk c among the first k events
AdaptiveSleepsBefore(c, k) ==
    SelectSeq(SubSeq(events, 1, k),
              LAMBDA e : e.op = "sleep_adaptive" /\ e.chunk = c)

\* C15 as claimed: before the first request of chunk c+1, exactly one
\* adaptive delay of clamp(token_count / 500, 5, 20) seconds was slept for
\* chunk c; none is slept for the last chunk.
C15_DelayAfterEveryChunk ==
    /\ \A c \in 0..(total_chunks - 2) :
          FirstRequestAt(c + 1) > 0 =>
              LET before == AdaptiveSleepsBefore(c, FirstRequestAt(c + 1))
              IN /\ Len(before) = 1
                 /\ before[1].arg = ClampedDelay(job_chunks[c + 1])
    /\ total_chunks > 0 => AdaptiveSleeps(total_chunks - 1) = <<>>

\* C15 as amended: the adaptive delay follows the successful request of a
\* chunk that is not the last, once, with clamp(token_count / 500, 5, 20)
\* seconds, and is slept nowhere else: not after the last chunk and not
\* after a chunk that failed all its attempts.
C15_DelayAfterSuccessfulChunk ==
    /\ \A k \in 1..Len(events) :
          (/\ events[k].op = "chunk_request"
           /\ events[k].outcome = "content"
           /\ events[k].chunk < total_chunks - 1) =>
              /\ k < Len(events)
              /\ events[k + 1].op = "sleep_adaptive"
              /\ events[k + 1].chunk = events[k].chunk
    /\ \A k \in 1..Len(events) :
          events[k].op = "sleep_adaptive" =>
              /\ k > 1
              /\ events[k - 1].op = "chunk_request"
              /\ events[k - 1].outcome = "content"
              /\ events[k - 1].chunk = events[k].chunk
              /\ events[k].chunk < total_chunks - 1
              /\ events[k].arg = ClampedDelay(job_chunks[events[k].chunk + 1])
    /\ \A k \in 1..Len(events) :
          events[k].op = "sleep_adaptive" =>
              \A n \in 1..(k - 1) :
                  /\ events[n].op = "sleep_adaptive" =>
                        events[n].chunk < events[k].chunk
                  /\ events[n].op = "chunk_request" =>
                        events[n].chunk <= events[k].chunk

\* three chunks of 12000, 1000 and 5000 tokens: 20 s after the first, no
\* delay after the second, which failed, none after the last
C15_Witness ==
    /\ Returned
    /\ job_chunks = <<12000, 1000, 5000>>
    /\ Succeeded(0) /\ Exhausted(1) /\ Succeeded(2)
    /\ AdaptiveSleeps(0) # <<>>
    /\ AdaptiveSleeps(0)[1].arg = 20000
    /\ AdaptiveSleeps(1) = <<>>
    /\ AdaptiveSleeps(2) = <<>>

----------------------------------------------------------------------------
(* Order of the requests *)

IsRequest(e) == e.op \in {"chunk_request", "final_request"}

\* the requests of the job in the order they were made
Requests == SelectSeq(events, IsRequest)

\* the request was the last one of its chunk
LastOfChunk(e) == e.outcome = "content" \/ e.attempt = max_retries - 1

\* C16: the requests of a job are made one after the other in order: the
\* first is the first attempt of chunk 0; after a failed attempt that is not
\* the last comes the next attempt of the same chunk; after the last attempt
\* of a chunk comes the first attempt of the next chunk, or, after the last
\* chunk, the reduction request; nothing comes after the reduction request.
C16_SequentialOrdered ==
    /\ Requests # <<>> =>
          /\ Requests[1].op = "chunk_request"
          /\ Requests[1].chunk = 0 /\ Requests[1].attempt = 0
    /\ \A k \in 1..(Len(Requests) - 1) :
          LET e == Requests[k]
              f == Requests[k + 1]
          IN /\ e.op = "chunk_request"
             /\ IF ~LastOfChunk(e)
                THEN /\ f.op = "chunk_request"
                     /\ f.chunk = e.chunk /\ f.attempt = e.attempt + 1
                ELSE IF e.chunk < total_chunks - 1
                THEN /\ f.op = "chunk_request"
                     /\ f.chunk = e.chunk + 1 /\ f.attempt = 0
                ELSE f.op = "final_request"

C16_Witness ==
    /\ Returned
    /\ total_chunks = 3
    /\ max_retries = 2
    /\ Len(ChunkRequests(0)) = 2 /\ Succeeded(0)
    /\ Exhausted(1)
    /\ Len(ChunkRequests(2)) = 1 /\ Succeeded(2)
    /\ Len(FinalRequests) = 1
    /\ events[Len(events) - 1].op = "final_request"

----------------------------------------------------------------------------
(* Cancellation of a running summarization *)

\* cancel() was called while the requests of a chunk that is not the last
\* were under way
CancelledMidJob ==
    /\ cancel_mark.pc = "attempt"
    /\ cancel_mark.chunk < total_chunks - 1

\* C17: after cancel() was called during a chunk of a multi-chunk job, the
\* job starts no request for a later chunk and no reduction request.
C17_CancelStopsJob ==
    CancelledMidJob =>
        \A k \in (cancel_mark.at + 1)..Len(events) :
            /\ events[k].op # "final_request"
            /\ events[k].op = "chunk_request" =>
                  events[k].chunk <= cancel_mark.chunk

----------------------------------------------------------------------------
(* Progress reports *)

\* chunk c was finished within the first k events
CompletedWithin(c, k) ==
    LET requests == SelectSeq(SubSeq(events, 1, k),
                              LAMBDA e : e.op = "chunk_request" /\ e.chunk = c)
    IN \/ Len(requests) = max_retries
       \/ \E n \in 1..Len(requests) : requests[n].outcome = "content"

\* C18: each progress report comes after its chunk is finished: the current
\* it shows is the number of chunks finished so far, and at most total.
C18_ProgressAfterChunk ==
    \A k \in 1..Len(events) :
        events[k].op = "progress" =>
            /\ ProgressCurrent(events[k].chunk) =
                  Cardinality({c \in 0..(total_chunks - 1) : CompletedWithin(c, k)})
            /\ ProgressCurrent(events[k].chunk) <= total_chunks

----------------------------------------------------------------------------
(* Properties of Cache *)

\* C19: what was last cached under a key, and not removed by a cleanup
\* since, is what the cache gives back for that key: has_transcript is true
\* and get_transcript returns the segments; get_summary returns the summary.
C19_CacheRoundTrip ==
    \A k \in DOMAIN last_written :
        IF k.kind = "transcript"
        THEN /\ has_transcript(k.video_id)
             /\ get_transcript(k.video_id) = last_written[k]
        ELSE get_summary(k.video_id, k.depth, k.model) = last_written[k]

\* the file that holds the entry of a metadata key
KeyPath(key) ==
    [dir |-> IF key[1] = "transcript" THEN "transcripts" ELSE "summaries",
     name |-> Tail(key)]

\* C20: cleanup(max_age_days = d) ends without an error; of the entries the
\* cache held, each one older than d days has lost its file and its metadata
\* entry, and each one younger than d days has kept both.
C20_CleanupRemovesOld ==
    last_op.op = "cleanup" =>
        /\ last_op.raised = "none"
        /\ \A k \in 1..Len(last_op.before.metadata) :
              LET e == last_op.before.metadata[k]
                  age == last_op.at - e.timestamp
              IN /\ age > last_op.max_age_days =>
                      /\ e.key \notin Keys(metadata)
                      /\ KeyPath(e.key) \notin DOMAIN files
                 /\ age < last_op.max_age_days =>
                      /\ e.key \in Keys(metadata)
                      /\ KeyPath(e.key) \in DOMAIN files
                      /\ files[KeyPath(e.key)] = last_op.before.files[KeyPath(e.key)]

----------------------------------------------------------------------------
(* Properties of get_summary *)

RunEnded == gpc = "done"

\* the run found the summary of its depth and model in the cache
SummaryWasCached ==
    DepthModel(SUMMARY_DEPTH, OPENAI_MODEL) \in DOMAIN at_start.summaries

Called(calls, service) == \E n \in 1..Len(calls) : calls[n] = service

\* C21: a run that finds the summary of its video id, depth and model in the
\* cache calls neither the transcript source, nor the video-metadata source,
\* nor the text-generation service; a run that finds the transcript in the
\* cache does not call the transcript source.
C21_CacheBeforeNetwork ==
    runs > 0 =>
       /\ SummaryWasCached => net_calls = <<>>
       /\ at_start.transcript => ~Called(net_calls, "transcript")

\* a run that fetched the transcript and then got no summary
FetchedThenFailed(r) ==
    /\ ~r.at_start.transcript
    /\ Called(r.net_calls, "transcript")
    /\ Called(r.net_calls, "text_generation")
    /\ r.returned = NoneValue

\* C22: after a run that fetched the transcript and failed in the
\* summarization, the transcript is cached and no summary entry was written;
\* every later run takes the transcript from the cache and does not call the
\* transcript source.
C22_TranscriptSurvivesFailure ==
    /\ \A n \in 1..Len(run_log) :
          FetchedThenFailed(run_log[n]) =>
             /\ cached_transcript
             /\ IF n < Len(run_log)
                THEN /\ run_log[n + 1].at_start.transcript
                     /\ run_log[n + 1].at_start.summaries
                           = run_log[n].at_start.summaries
                     /\ ~Called(run_log[n + 1].net_calls, "transcript")
                ELSE /\ runs = n => cached_summaries = run_log[n].at_start.summaries
                     /\ runs > n => /\ at_start.transcript
                                    /\ at_start.summaries
                                          = run_log[n].at_start.summaries
                                    /\ ~Called(net_calls, "transcript")

C22_Witness ==
    /\ Len(run_log) = 2
    /\ FetchedThenFailed(run_log[1])
    /\ Called(run_log[2].net_calls, "text_generation")
    /\ run_log[2].returned # NoneValue

\* C28: every summary in the cache under a depth and a model was generated
\* with that depth and that model.
C28_StoredUnderOwnKey ==
    \A k \in DOMAIN cached_summaries :
       /\ cached_summaries[k].depth = k.depth
       /\ cached_summaries[k].model = k.model

----------------------------------------------------------------------------
(* Properties of the chunking scenario *)

CountedDone == qpc = "done"

\* the parameters are those of the scenario, or their half
ScenarioParameters ==
    /\ MaxChunkTokens(context_window) = Scaled(6400, context_window)
    /\ OverlapTokens(MaxChunkTokens(context_window)) = Scaled(640, context_window)

LongestSentence(t) ==
    CHOOSE n \in {CountOf(t[k]) : k \in 1..Len(t)} :
       \A k \in 1..Len(t) : CountOf(t[k]) <= n

\* C23: with max_tokens 6400 and overlap_tokens 640, or both scaled, every
\* transcript whose sentence token counts total 9000, scaled alike, is split
\* into exactly 2 chunks.
C23_ExactlyTwoChunks ==
    CountedDone => ScenarioParameters /\ Len(token_counts) = 2

\* C23, amended: a transcript of one sentence is one chunk; a transcript of
\* several sentences is at least 2 chunks, and exactly 2 when no sentence
\* has more than 3160 tokens (scaled alike).
C23_TwoChunksForShortSentences ==
    CountedDone =>
       /\ ScenarioParameters
       /\ Len(sentence_words) = 1 => Len(token_counts) = 1
       /\ Len(sentence_words) > 1 => Len(token_counts) >= 2
       /\ (/\ Len(sentence_words) > 1
           /\ LongestSentence(sentence_words) <= Scaled(3160, context_window))
          => Len(token_counts) = 2

C23_Witness ==
    /\ CountedDone
    /\ context_window = 16000
    /\ Len(sentence_words) = 3
    /\ LongestSentence(sentence_words) = 3160
    /\ token_counts = <<6320, 2680>>

----------------------------------------------------------------------------
(* Properties of summarize_video *)

\* the summarization of chunk c used up its retries
ChunkExhausted(c) ==
    \E n \in 1..Len(core_requests) :
       /\ core_requests[n].what = "chunk"
       /\ core_requests[n].chunk = c
       /\ core_requests[n].result = "raised"

\* C24: when the summarization of a chunk has used up its retries,
\* summarize_video has ended with RetryError: it returned no summary, no
\* later chunk was requested and the summary cache has no entry.
C24_ChunkFailureAborts ==
    \A c \in 0..MaxCoreChunks :
       ChunkExhausted(c) =>
          /\ upc = "done"
          /\ core_result.kind = "RetryError"
          /\ core_result.attempts = core_max_retries
          /\ \A n \in 1..Len(core_requests) : core_requests[n].chunk <= c
          /\ core_requests[Len(core_requests)].chunk = c
          /\ Len(chunk_summaries) = c
          /\ core_cached_summary = NoneValue

C24_Witness ==
    /\ ChunkExhausted(1)
    /\ core_chunks = 3
    /\ core_max_retries = 3
    /\ core_requests[Len(core_requests)].attempts = 3
    /\ upc = "done"

----------------------------------------------------------------------------
(* Properties of SummaryWorker.run *)

\* the worker is between two urls, or past the last one
BetweenUrls == wpc \in {"loop", "check", "emit", "done"}

\* C25: whenever the worker has finished processing a url, by success, by
\* skipping it or by an exception, yt_sum.get_next_available_filename is the
\* original function again: no wrapper is left around it.
C25_OverrideUndone == BetweenUrls => wrappers = 0

\* C30: a run emits finished at most once, and never when cancel() has been
\* called.
C30_FinishedOnceNotAfterCancel ==
    /\ Len(finished_emits) <= 1
    /\ \A n \in 1..Len(finished_emits) : ~finished_emits[n].is_cancelled

----------------------------------------------------------------------------
(* Properties of the metadata index and of distinct keys *)

\* C26: on one Cache instance, after any calls of cache_transcript,
\* cache_summary and cleanup, every key of the metadata index, in memory
\* and in cache_metadata.json, has its file, and every cached file has a key
\* in the index.
C26_IndexMatchesFiles ==
    /\ \A key \in Keys(metadata) : KeyPath(key) \in DOMAIN files
    /\ \A key \in Keys(saved_metadata) : KeyPath(key) \in DOMAIN files
    /\ \A path \in DOMAIN files : \E key \in Keys(metadata) : KeyPath(key) = path

\* the files a step has written, replaced or removed
ChangedFiles ==
    {path \in DOMAIN files \cup DOMAIN files' :
        \/ path \notin DOMAIN files
        \/ path \notin DOMAIN files'
        \/ files'[path] # files[path]}

\* the entries a cleanup(max_age_days) at this time has to keep
KeptEntries(max_age_days) ==
    {k \in 1..Len(metadata) : ~(now - metadata[k].timestamp > max_age_days)}

\* a step of the cache leaves every entry but its own as it was
LeavesOtherKeys ==
    /\ cache_calls' = cache_calls + 1
       => \A v, w \in VideoIds, d, e \in Depths, m, n \in Models :
             /\ v # w => TranscriptPath(v) # TranscriptPath(w)
             /\ <<v, d, m>> # <<w, e, n>> => SummaryPath(v, d, m) # SummaryPath(w, e, n)
    /\ (cache_calls' = cache_calls + 1 /\ last_op'.op = "none")
       => Cardinality(ChangedFiles) <= 1
    /\ (cache_calls' = cache_calls + 1 /\ last_op'.op = "cleanup")
       => \A k \in KeptEntries(last_op'.max_age_days) :
             LET path == KeyPath(metadata[k].key)
             IN path \in DOMAIN files =>
                   /\ path \in DOMAIN files'
                   /\ files'[path] = files[path]
                   /\ metadata[k].key \in Keys(metadata')

\* C27: entries with different keys never alias: caching a summary (or a
\* transcript) under one key leaves the entry of every other key as it was,
\* and a cleanup that removes one entry leaves the entries it has to keep.
C27_KeysDoNotAlias == [][LeavesOtherKeys]_vars

----------------------------------------------------------------------------
(* Properties of two Cache instances *)

\* C29: when two Cache instances over the same directory have each cached
\* entries, cache_metadata.json holds the key of every entry cached.
C29_BothEntriesPersisted ==
    \A key \in cached_keys : key \in Keys(saved_metadata)

====
